---------------------------- MODULE Spec2Model ----------------------------
(***************************************************************************)
(* A model of the zipview extension: the path sanitizer, the archive       *)
(* safety gate, the virtual tree listing, and the content provider's       *)
(* preview / extraction requests with its LRU content cache.               *)
(*                                                                         *)
(* JavaScript strings are modelled as sequences of one-character strings,  *)
(* so that split / replace / startsWith / slice are computed character by  *)
(* character as the code computes them.                                    *)
(***************************************************************************)
EXTENDS Integers, Sequences, FiniteSets, TLC

(***************************************************************************)
(* Bounds of the model.                                                    *)
(***************************************************************************)
\* longest raw path handed to sanitizeZipPath in SpecSanitize
MaxLen == 5
\* largest "small" size / limit enumerated in SpecGate (the spec's example
\* values 10, 100, 500 and 2000 are added to the enumeration)
MaxSize == 4
\* largest number of entries of an archive in SpecTree
MaxEntries == 4

(***************************************************************************)
(* JavaScript string helpers.                                              *)
(***************************************************************************)
\* the value null / undefined of the code; no string equals it
Null == <<"<null>">>

Letters == {"a", "b", "c", "d", "e", "g", "t", "x", "z"}

\* s.replace('\\', '/') without the g flag: only the first backslash
ReplaceFirstBackslash(s) ==
    [i \in 1..Len(s) |->
        IF s[i] = "\\" /\ (\A j \in 1..(i - 1) : s[j] # "\\") THEN "/" ELSE s[i]]

\* s.replace(/\\/g, '/')
ReplaceBackslashes(s) == [i \in 1..Len(s) |-> IF s[i] = "\\" THEN "/" ELSE s[i]]

\* s.replace(/^\/+/, '')
RECURSIVE StripLeadingSlashes(_)
StripLeadingSlashes(s) ==
    IF s # <<>> /\ Head(s) = "/" THEN StripLeadingSlashes(Tail(s)) ELSE s

\* s.split(sep): always at least one part, empty parts are kept
RECURSIVE Split(_, _)
Split(s, sep) ==
    IF \A i \in 1..Len(s) : s[i] # sep
    THEN <<s>>
    ELSE LET i == CHOOSE k \in 1..Len(s) :
                    s[k] = sep /\ \A j \in 1..(k - 1) : s[j] # sep
         IN  <<SubSeq(s, 1, i - 1)>> \o Split(SubSeq(s, i + 1, Len(s)), sep)

\* parts.join(sep)
RECURSIVE Join(_, _)
Join(parts, sep) ==
    IF parts = <<>> THEN <<>>
    ELSE IF Len(parts) = 1 THEN parts[1]
    ELSE parts[1] \o <<sep>> \o Join(Tail(parts), sep)

\* s.startsWith(prefix)
StartsWith(s, prefix) ==
    Len(prefix) <= Len(s) /\ SubSeq(s, 1, Len(prefix)) = prefix

\* s.endsWith('/')
EndsWithSlash(s) == s # <<>> /\ s[Len(s)] = "/"

\* s.slice(n)
Slice(s, n) == SubSeq(s, n + 1, Len(s))

\* parts.filter(p => p.length > 0)
RECURSIVE FilterNonEmpty(_)
FilterNonEmpty(parts) ==
    IF parts = <<>> THEN <<>>
    ELSE IF Head(parts) = <<>> THEN FilterNonEmpty(Tail(parts))
    ELSE <<Head(parts)>> \o FilterNonEmpty(Tail(parts))

(***************************************************************************)
(* PathSanitizer: sanitizeZipPath.                                         *)
(***************************************************************************)
\* /^[a-zA-Z]:$/.test(part)
IsDriveLetter(part) == Len(part) = 2 /\ part[1] \in Letters /\ part[2] = ":"

\* a loop that lets a ".." part through instead of rejecting the path
RECURSIVE SanitizeLoopSkipsDotDot(_, _)
SanitizeLoopSkipsDotDot(parts, safeParts) ==
    IF parts = <<>> THEN [rejected |-> FALSE, safeParts |-> safeParts]
    ELSE LET part == Head(parts) IN
         IF part = <<>> \/ part = <<".">> \/ part = <<".", ".">>
         THEN SanitizeLoopSkipsDotDot(Tail(parts), safeParts)
         ELSE IF IsDriveLetter(part)
         THEN [rejected |-> TRUE, safeParts |-> <<>>]
         ELSE SanitizeLoopSkipsDotDot(Tail(parts), Append(safeParts, part))

\* the for loop over parts: rejected on a ".." or drive-letter part (the
\* early return null), else the safe parts collected
RECURSIVE SanitizeLoop(_, _)
SanitizeLoop(parts, safeParts) ==
    IF parts = <<>> THEN [rejected |-> FALSE, safeParts |-> safeParts]
    ELSE LET part == Head(parts) IN
         IF part = <<>> \/ part = <<".">>
         THEN SanitizeLoop(Tail(parts), safeParts)
         ELSE IF part = <<".", ".">>
         THEN [rejected |-> TRUE, safeParts |-> <<>>]
         ELSE IF IsDriveLetter(part)
         THEN [rejected |-> TRUE, safeParts |-> <<>>]
         ELSE SanitizeLoop(Tail(parts), Append(safeParts, part))

\* a sanitizer that forgets to normalize the backslashes
sanitizeKeepsBackslashes(internalPath) ==
    IF internalPath = <<>> THEN Null
    ELSE LET normalized == StripLeadingSlashes(internalPath)
             loop       == SanitizeLoop(Split(normalized, "/"), <<>>)
         IN  IF loop.rejected \/ loop.safeParts = <<>> THEN Null
             ELSE Join(loop.safeParts, "/")

sanitizeZipPath(internalPath) ==
    IF internalPath = <<>> THEN Null
    ELSE LET normalized == StripLeadingSlashes(ReplaceBackslashes(internalPath))
             loop       == SanitizeLoop(Split(normalized, "/"), <<>>)
         IN  IF loop.rejected THEN Null
             ELSE IF loop.safeParts = <<>> THEN Null
             ELSE Join(loop.safeParts, "/")

(***************************************************************************)
(* Configuration: getConfig.  A setting is <<>> when config.get returns    *)
(* undefined and <<n>> when it returns the number n.                       *)
(***************************************************************************)
DEFAULT_MAX_FILE_SIZE_MB == 10
DEFAULT_MAX_COMPRESSION_RATIO == 100
DEFAULT_MAX_CACHE_SIZE == 50

\* config.get<number>(key) ?? dflt
OrDefault(setting, dflt) == IF setting = <<>> THEN dflt ELSE setting[1]

\* limits read once, before any setting was changed
getConfigStatic(settings) ==
    [maxFileSize         |-> DEFAULT_MAX_FILE_SIZE_MB * 1024 * 1024,
     maxCompressionRatio |-> DEFAULT_MAX_COMPRESSION_RATIO,
     maxCacheSize        |-> DEFAULT_MAX_CACHE_SIZE]

\* getConfig(): the three settings, read from the workspace configuration at
\* each call
getConfig(settings) ==
    [maxFileSize         |->
        OrDefault(settings.maxFileSize, DEFAULT_MAX_FILE_SIZE_MB) * 1024 * 1024,
     maxCompressionRatio |->
        OrDefault(settings.maxCompressionRatio, DEFAULT_MAX_COMPRESSION_RATIO),
     maxCacheSize        |->
        OrDefault(settings.maxCacheSize, DEFAULT_MAX_CACHE_SIZE)]

(***************************************************************************)
(* ArchiveSafetyGate: isZipBomb and the two checks of the callers.         *)
(***************************************************************************)
\* a ratio computed with integer division
isZipBombFloorRatio(compressedSize, uncompressedSize, maxRatio) ==
    IF compressedSize = 0 THEN uncompressedSize > 0
    ELSE (uncompressedSize \div compressedSize) > maxRatio

\* ratio = uncompressedSize / compressedSize is a real division: the
\* quotient exceeds the integer maxRatio when its integer part does, or when
\* its integer part equals maxRatio and a remainder is left
isZipBomb(compressedSize, uncompressedSize, maxRatio) ==
    IF compressedSize = 0 THEN uncompressedSize > 0
    ELSE LET whole == uncompressedSize \div compressedSize
             rest  == uncompressedSize % compressedSize
         IN  whole > maxRatio \/ (whole = maxRatio /\ rest > 0)

\* a gate that tests the ratio before the size
PreviewGateRatioFirst(compressedSize, uncompressedSize, maxFileSize, maxCompressionRatio) ==
    IF isZipBomb(compressedSize, uncompressedSize, maxCompressionRatio)
    THEN "SuspiciousRatio"
    ELSE IF uncompressedSize > maxFileSize THEN "TooLarge"
    ELSE "Permitted"

\* a gate that only tests the ratio
PreviewGateNoSizeCheck(compressedSize, uncompressedSize, maxFileSize, maxCompressionRatio) ==
    IF isZipBomb(compressedSize, uncompressedSize, maxCompressionRatio)
    THEN "SuspiciousRatio"
    ELSE "Permitted"

\* provideTextDocumentContent: the size check, then the zip bomb check
PreviewGate(compressedSize, uncompressedSize, maxFileSize, maxCompressionRatio) ==
    IF uncompressedSize > maxFileSize THEN "TooLarge"
    ELSE IF isZipBomb(compressedSize, uncompressedSize, maxCompressionRatio)
    THEN "SuspiciousRatio"
    ELSE "Permitted"

\* extractFileFromZip: the size check, then the zip bomb check
ExtractGate(compressedSize, uncompressedSize, maxFileSize, maxCompressionRatio) ==
    IF uncompressedSize > maxFileSize THEN "TooLarge"
    ELSE IF isZipBomb(compressedSize, uncompressedSize, maxCompressionRatio)
    THEN "SuspiciousRatio"
    ELSE "Permitted"

(***************************************************************************)
(* VirtualTree: getEntriesAtPath.  An archive index is the sequence of its *)
(* entries [path, dir] in storage order (the order of zip.forEach); a tree *)
(* item is [label, type, relativePath].                                    *)
(***************************************************************************)
\* the collation order of the characters names are made of
CharOrder == <<".", "a", "b", "c", "d", "e", "f", "g", "k", "t", "x", "y", "z">>

CharRank(c) == CHOOSE i \in 1..Len(CharOrder) : CharOrder[i] = c

\* a.localeCompare(b) for names over CharOrder: -1, 0 or 1
RECURSIVE localeCompare(_, _)
localeCompare(a, b) ==
    IF a = <<>> /\ b = <<>> THEN 0
    ELSE IF a = <<>> THEN -1
    ELSE IF b = <<>> THEN 1
    ELSE IF CharRank(Head(a)) < CharRank(Head(b)) THEN -1
    ELSE IF CharRank(Head(a)) > CharRank(Head(b)) THEN 1
    ELSE localeCompare(Tail(a), Tail(b))

\* a comparator that forgets to put the folders first
CompareByLabelOnly(a, b) == localeCompare(a.label, b.label)

\* the comparator handed to entries.sort
CompareItems(a, b) ==
    IF a.type = "folder" /\ b.type # "folder" THEN -1
    ELSE IF a.type # "folder" /\ b.type = "folder" THEN 1
    ELSE localeCompare(a.label, b.label)

\* x placed behind every item that does not compare greater than it
RECURSIVE InsertItem(_, _)
InsertItem(sorted, x) ==
    IF sorted = <<>> THEN <<x>>
    ELSE IF CompareItems(Head(sorted), x) <= 0
    THEN <<Head(sorted)>> \o InsertItem(Tail(sorted), x)
    ELSE <<x>> \o sorted

\* entries.sort(compare): Array.prototype.sort is stable
RECURSIVE SortItems(_)
SortItems(items) ==
    IF items = <<>> THEN <<>>
    ELSE InsertItem(SortItems(SubSeq(items, 1, Len(items) - 1)), items[Len(items)])

\* a base path used as the prefix without the trailing slash
NormalizeBaseNoSlash(basePath) == basePath

\* basePath ? (basePath.endsWith('/') ? basePath : basePath + '/') : ''
NormalizeBase(basePath) ==
    IF basePath # <<>>
    THEN (IF EndsWithSlash(basePath) THEN basePath ELSE basePath \o <<"/">>)
    ELSE <<>>

\* a folder pushed without looking at seenFolders
PushFolderNoDedup(items, seenFolders, name, normalizedBase) ==
    [items |-> Append(items, [label |-> name, type |-> "folder",
                              relativePath |-> normalizedBase \o name]),
     seenFolders |-> seenFolders \cup {name}]

\* if (!seenFolders.has(name)) { seenFolders.add(name); entries.push(folder) }
PushFolder(items, seenFolders, name, normalizedBase) ==
    IF name \notin seenFolders
    THEN [items |-> Append(items, [label |-> name, type |-> "folder",
                                   relativePath |-> normalizedBase \o name]),
          seenFolders |-> seenFolders \cup {name}]
    ELSE [items |-> items, seenFolders |-> seenFolders]

\* a direct child that is pushed as a file whatever the entry is
VisitDirectChildAlwaysFile(acc, zipEntry, name, normalizedBase) ==
    [items |-> Append(acc.items, [label |-> name, type |-> "file",
                                  relativePath |-> zipEntry.path]),
     seenFolders |-> acc.seenFolders]

\* the parts.length === 1 branch of the callback
VisitDirectChild(acc, zipEntry, name, normalizedBase) ==
    LET isFolder == zipEntry.dir \/ EndsWithSlash(zipEntry.path)
    IN  IF isFolder
        THEN PushFolder(acc.items, acc.seenFolders, name, normalizedBase)
        ELSE [items |-> Append(acc.items, [label |-> name, type |-> "file",
                                           relativePath |-> zipEntry.path]),
              seenFolders |-> acc.seenFolders]

\* the callback of zip.forEach, applied to one entry
VisitEntry(acc, zipEntry, normalizedBase) ==
    LET relativePath == zipEntry.path IN
    IF relativePath = normalizedBase THEN acc
    ELSE IF ~StartsWith(relativePath, normalizedBase) THEN acc
    ELSE LET relativeFromBase == Slice(relativePath, Len(normalizedBase)) IN
         IF relativeFromBase = <<>> THEN acc
         ELSE LET parts == FilterNonEmpty(Split(relativeFromBase, "/")) IN
              IF Len(parts) = 0 THEN acc
              ELSE IF Len(parts) = 1
              THEN VisitDirectChild(acc, zipEntry, parts[1], normalizedBase)
              ELSE PushFolder(acc.items, acc.seenFolders, parts[1], normalizedBase)

\* zip.forEach(callback) over the entries in storage order
RECURSIVE ForEachEntry(_, _, _)
ForEachEntry(zipEntries, acc, normalizedBase) ==
    IF zipEntries = <<>> THEN acc
    ELSE ForEachEntry(Tail(zipEntries),
                      VisitEntry(acc, Head(zipEntries), normalizedBase),
                      normalizedBase)

\* a listing returned in the order the entries were met
getEntriesAtPathUnsorted(zipEntries, basePath) ==
    ForEachEntry(zipEntries, [items |-> <<>>, seenFolders |-> {}],
                 NormalizeBase(basePath)).items

getEntriesAtPath(zipEntries, basePath) ==
    SortItems(ForEachEntry(zipEntries, [items |-> <<>>, seenFolders |-> {}],
                           NormalizeBase(basePath)).items)

(***************************************************************************)
(* The archive files and their index.  The file at an archive path is      *)
(* "missing" (readFile rejects), "corrupt" (JSZip.loadAsync rejects),      *)
(* "archive" or, rewritten, "archive2"; Archive is the index               *)
(* JSZip.loadAsync returns for "archive", keyed by entry path, with the    *)
(* sizes the code reads from _data.                                        *)
(***************************************************************************)
\* f is a small text file at ratio 2; y is 2 bytes larger than 1 MB at a
\* ratio of 3: too large under a limit of 1 MB only, suspicious under a
\* ratio limit of 2 only; k is a small file whose stored data is damaged
\* (its decode rejects); d/ is an explicit directory
EntryNames == { <<"f">>, <<"y">>, <<"k">>, <<"d", "/">> }

Archive ==
    [name \in EntryNames |->
        [dir              |-> EndsWithSlash(name),
         compressedSize   |-> CASE name = <<"y">> -> 349526
                                [] name = <<"d", "/">> -> 0
                                [] OTHER -> 1,
         uncompressedSize |-> CASE name = <<"f">> -> 2
                                [] name = <<"y">> -> 1048578
                                [] name = <<"k">> -> 1
                                [] OTHER -> 0,
         damaged          |-> name = <<"k">>,
         content          |-> <<"text of">> \o name]]

\* the index of the archive after it has been rewritten: the text of every
\* entry is new and a file g has been added
Archive2 ==
    [name \in EntryNames \cup { <<"g">> } |->
        IF name \in EntryNames
        THEN [Archive[name] EXCEPT !.content = <<"new text of">> \o name]
        ELSE [dir |-> FALSE, compressedSize |-> 1, uncompressedSize |-> 2,
              damaged |-> FALSE, content |-> <<"new text of">> \o name]]

\* JSZip.loadAsync(data): the index of the file content read
ArchiveOf(data) == IF data = "archive2" THEN Archive2 ELSE Archive

\* zip.file(name): the entry stored under exactly that name, unless it is a
\* directory
FindFile(zip, name) ==
    IF name \in DOMAIN zip /\ ~zip[name].dir THEN name ELSE Null

(***************************************************************************)
(* ContentCache: contentCache is a function from cache keys to text,       *)
(* cacheOrder the sequence of keys from least to most recently used.       *)
(***************************************************************************)
\* cacheOrder.indexOf(key), 0 for -1
IndexOf(order, key) ==
    IF \E i \in 1..Len(order) : order[i] = key
    THEN CHOOSE i \in 1..Len(order) :
            order[i] = key /\ \A j \in 1..(i - 1) : order[j] # key
    ELSE 0

\* cacheOrder.splice(index, 1)
Splice(order, index) ==
    SubSeq(order, 1, index - 1) \o SubSeq(order, index + 1, Len(order))

\* contentCache.delete(key)
MapDelete(map, key) == [k \in (DOMAIN map) \ {key} |-> map[k]]

\* contentCache.set(key, value)
MapSet(map, key, value) ==
    [k \in (DOMAIN map) \cup {key} |-> IF k = key THEN value ELSE map[k]]

\* a lookup that leaves the access order alone
getFromCacheNoPromote(map, order, key) ==
    [value |-> IF key \in DOMAIN map THEN map[key] ELSE Null,
     order |-> order]

\* getFromCache(key): the value found (Null for undefined) and the order
\* after the lookup
getFromCache(map, order, key) ==
    [value |-> IF key \in DOMAIN map THEN map[key] ELSE Null,
     order |-> IF key \in DOMAIN map /\ IndexOf(order, key) # 0
               THEN Append(Splice(order, IndexOf(order, key)), key)
               ELSE order]

\* an eviction loop that stops one entry late
RECURSIVE EvictLoopOffByOne(_, _, _)
EvictLoopOffByOne(map, order, maxCacheSize) ==
    IF Len(order) > maxCacheSize
    THEN EvictLoopOffByOne(MapDelete(map, Head(order)), Tail(order), maxCacheSize)
    ELSE [map |-> map, order |-> order]

\* while (cacheOrder.length >= maxCacheSize) { shift, delete }, for
\* maxCacheSize >= 1
RECURSIVE EvictLoop(_, _, _)
EvictLoop(map, order, maxCacheSize) ==
    IF Len(order) >= maxCacheSize
    THEN EvictLoop(MapDelete(map, Head(order)), Tail(order), maxCacheSize)
    ELSE [map |-> map, order |-> order]

\* the loop for maxCacheSize <= 0: cacheOrder.length >= maxCacheSize stays
\* true; every key of the order is shifted out and deleted, then shift()
\* returns undefined for ever
RECURSIVE EvictAll(_, _)
EvictAll(map, order) ==
    IF order = <<>> THEN map
    ELSE EvictAll(MapDelete(map, Head(order)), Tail(order))

\* an addToCache that does not take the key out of the order first
addToCacheNoSplice(map, order, key, value, maxCacheSize) ==
    LET evicted == EvictLoop(map, order, maxCacheSize)
    IN  [map   |-> MapSet(evicted.map, key, value),
         order |-> Append(evicted.order, key)]

\* addToCache(key, value)
addToCache(map, order, key, value, maxCacheSize) ==
    LET existingIndex == IndexOf(order, key)
        order1  == IF existingIndex # 0 THEN Splice(order, existingIndex) ELSE order
        evicted == EvictLoop(map, order1, maxCacheSize)
    IN  [map   |-> MapSet(evicted.map, key, value),
         order |-> Append(evicted.order, key)]

\* invalidate(uri): contentCache.delete(key), cacheOrder.splice(index, 1)
invalidate(map, order, key) ==
    [map   |-> MapDelete(map, key),
     order |-> IF IndexOf(order, key) # 0 THEN Splice(order, IndexOf(order, key))
               ELSE order]

(***************************************************************************)
(* Requests.  A preview is requested for a virtual document identity       *)
(* [path, zipArg]: path is uri.path, zipArg stands for the query: "z" when *)
(* it names the archive path, "" when it names none, "%" when its zipPath  *)
(* value does not percent-decode.  An extraction is requested with the raw *)
(* internal path as path and the archive path as zipArg.                   *)
(***************************************************************************)
\* decodeURIComponent(new URLSearchParams(uri.query).get('zipPath') || '')
DecodeZipPath(zipArg) ==
    IF zipArg = "%" THEN [throws |-> TRUE, zipPath |-> ""]
    ELSE [throws |-> FALSE, zipPath |-> zipArg]

\* uri.path.startsWith('/') ? uri.path.slice(1) : uri.path
RawInternalPath(path) == IF StartsWith(path, <<"/">>) THEN Slice(path, 1) ELSE path

\* uri.toString()
CacheKey(uri) == uri

(***************************************************************************)
(* State.                                                                  *)
(***************************************************************************)
VARIABLES
    \* SpecSanitize: sanitizeZipPath applied to a raw path, then to its result
    rawPath, sanitized, resanitized, sanPc,
    \* SpecGate: the sizes and limits handed to the gate, and its verdict
    gateIn, gateOut,
    \* SpecTree: an archive index, a base path and the listing returned
    zipEntries, basePath, listing, treePc,
    \* SpecWalk: the folder paths the tree view has yet to expand, and the
    \* listings it has been given, each with the base it was asked for
    frontier, walked,
    \* Spec: the zipView settings, the archive file, the content provider's
    \* cache and the requests in flight
    settings, fs, contentCache, cacheOrder, proc,
    \* the explorer provider: the archives found in the workspace, the parsed
    \* archives, the getChildren calls and the scans in flight, the file
    \* notifications not yet delivered, the paths invalidated since they were
    \* last asked for, and whether the extension has been torn down
    zipFiles, zipContentsCache, loads, scans, pending, invalidated, disposed,
    \* whether onDidChangeTreeData has fired since the tree view last asked
    \* for the root
    treeDataChanged,
    \* the scan started most recently: its slot, whether it has completed,
    \* and what it found
    latestScan,
    \* SpecLru: the keys in the order of their most recent put or successful
    \* get, oldest first, and the cache operation last run ("evicting" while
    \* addToCache is in its eviction loop)
    recency, lastOp

sanVars == <<rawPath, sanitized, resanitized, sanPc>>

gateVars == <<gateIn, gateOut>>

treeVars == <<zipEntries, basePath, listing, treePc, frontier, walked>>

mainVars == <<settings, fs, contentCache, cacheOrder, proc>>

explVars ==
    <<zipFiles, zipContentsCache, loads, scans, pending, invalidated, disposed,
      treeDataChanged, latestScan>>

lruVars == <<recency, lastOp>>

vars == <<sanVars, gateVars, treeVars, mainVars, explVars, lruVars>>

SanIdle ==
    /\ rawPath = <<>>
    /\ sanitized = Null
    /\ resanitized = Null
    /\ sanPc = "off"

GateIdle ==
    /\ gateIn = [compressedSize |-> 0, uncompressedSize |-> 0,
                 maxBytes |-> 0, maxRatio |-> 0]
    /\ gateOut = [by |-> "off", verdict |-> "none"]

TreeIdle ==
    /\ zipEntries = <<>>
    /\ basePath = <<>>
    /\ listing = <<>>
    /\ treePc = "off"
    /\ frontier = {}
    /\ walked = {}

\* the archive paths of the workspace
ArchivePaths == {"z", "w"}

Procs == {"p1", "p2"}

\* a request slot no request occupies
IdleProc ==
    [pc |-> "idle", kind |-> "none", path |-> <<>>, zipArg |-> "",
     internalPath |-> Null, data |-> "none", zip |-> "none", file |-> Null,
     readStarted |-> FALSE, lookedUp |-> Null, decodeStarted |-> FALSE,
     outcome |-> "none", text |-> <<>>]

NoSettings == [maxFileSize |-> <<>>, maxCompressionRatio |-> <<>>, maxCacheSize |-> <<>>]

MainIdle ==
    /\ settings = NoSettings
    /\ fs = [a \in ArchivePaths |-> "missing"]
    /\ contentCache = <<>>
    /\ cacheOrder = <<>>
    /\ proc = [p \in Procs |-> IdleProc]

Loaders == {"l1", "l2"}

\* a getChildren call slot no call occupies
IdleLoad ==
    [pc |-> "idle", element |-> "none", path |-> "", basePath |-> <<>>,
     data |-> "none", hit |-> FALSE, outcome |-> "none", index |-> "none",
     children |-> <<>>, roots |-> {}]

ScanSlots == {"s1", "s2"}

\* a scanForZipFiles slot no scan occupies
IdleScan == [pc |-> "idle", found |-> {}]

ExplIdle ==
    /\ zipFiles = {}
    /\ zipContentsCache = <<>>
    /\ loads = [l \in Loaders |-> IdleLoad]
    /\ scans = [s \in ScanSlots |-> IdleScan]
    /\ pending = [a \in ArchivePaths |-> "none"]
    /\ invalidated = {}
    /\ disposed = FALSE
    /\ treeDataChanged = FALSE
    /\ latestScan = [slot |-> "none", completed |-> FALSE, found |-> {}]

LruIdle ==
    /\ recency = <<>>
    /\ lastOp = "none"

(***************************************************************************)
(* SpecSanitize: every raw path up to MaxLen characters is sanitized, and  *)
(* every path sanitizeZipPath returns is sanitized again.                  *)
(***************************************************************************)
\* the characters raw paths are drawn from: a letter, a non-letter, the dot,
\* the colon and the two separators
SanChars == {"a", "1", ".", ":", "/", "\\"}

RawPaths == UNION {[1..n -> SanChars] : n \in 0..MaxLen}

SanInit ==
    /\ rawPath \in RawPaths
    /\ sanitized = Null
    /\ resanitized = Null
    /\ sanPc = "start"
    /\ GateIdle
    /\ TreeIdle
    /\ MainIdle
    /\ ExplIdle
    /\ LruIdle

\* sanitizeZipPath(rawPath)
Sanitize ==
    /\ sanPc = "start"
    /\ sanitized' = sanitizeZipPath(rawPath)
    /\ sanPc' = "sanitized"
    /\ UNCHANGED <<rawPath, resanitized, gateVars, treeVars, mainVars, explVars, lruVars>>

\* sanitizeZipPath applied to a path that sanitizeZipPath returned
Resanitize ==
    /\ sanPc = "sanitized"
    /\ sanitized # Null
    /\ resanitized' = sanitizeZipPath(sanitized)
    /\ sanPc' = "resanitized"
    /\ UNCHANGED <<rawPath, sanitized, gateVars, treeVars, mainVars, explVars, lruVars>>

SanNext == Sanitize \/ Resanitize

SpecSanitize == SanInit /\ [][SanNext]_vars

(***************************************************************************)
(* SpecGate: the two callers' checks applied to every combination of       *)
(* sizes and limits of GateValues.                                         *)
(***************************************************************************)
GateValues == (0..MaxSize) \cup {10, 100, 500, 2000}

GateInit ==
    /\ gateIn \in [compressedSize : GateValues, uncompressedSize : GateValues,
                   maxBytes : GateValues, maxRatio : GateValues]
    /\ gateOut = [by |-> "none", verdict |-> "none"]
    /\ SanIdle
    /\ TreeIdle
    /\ MainIdle
    /\ ExplIdle
    /\ LruIdle

\* the checks of provideTextDocumentContent
GatePreview ==
    /\ gateOut.by = "none"
    /\ gateOut' = [by |-> "preview",
                   verdict |-> PreviewGate(gateIn.compressedSize, gateIn.uncompressedSize,
                                           gateIn.maxBytes, gateIn.maxRatio)]
    /\ UNCHANGED <<gateIn, sanVars, treeVars, mainVars, explVars, lruVars>>

\* the checks of extractFileFromZip
GateExtract ==
    /\ gateOut.by = "none"
    /\ gateOut' = [by |-> "extract",
                   verdict |-> ExtractGate(gateIn.compressedSize, gateIn.uncompressedSize,
                                           gateIn.maxBytes, gateIn.maxRatio)]
    /\ UNCHANGED <<gateIn, sanVars, treeVars, mainVars, explVars, lruVars>>

GateNext == GatePreview \/ GateExtract

SpecGate == GateInit /\ [][GateNext]_vars

(***************************************************************************)
(* SpecTree: getEntriesAtPath on every archive index of up to MaxEntries   *)
(* entries drawn from EntryPaths, in every storage order, for every base   *)
(* path of BasePaths.                                                      *)
(***************************************************************************)
\* the entry paths archives are made of: the entries a/, a/b.txt,
\* a/c/d.txt and e.txt, a sibling whose name starts like a, an explicit
\* entry of the directory a/c, a file named like the directory a and a path
\* with an empty segment
EntryPaths ==
    { <<"a", "/">>,
      <<"a", "/", "b", ".", "t", "x", "t">>,
      <<"a", "/", "c", "/", "d", ".", "t", "x", "t">>,
      <<"e", ".", "t", "x", "t">>,
      <<"a", "b", "/", "x">>,
      <<"a", "/", "c", "/">>,
      <<"a">>,
      <<"a", "/", "/", "g">> }

\* the root, directories with and without the trailing slash, a file and a
\* path no entry lies under
BasePaths ==
    { <<>>, <<"a">>, <<"a", "/">>, <<"a", "/", "c">>, <<"a", "b">>,
      <<"e", ".", "t", "x", "t">>, <<"z">> }

\* JSZip keys its entries by path, and an entry is a directory exactly when
\* its path ends with a slash
ArchiveIndexes ==
    { [i \in 1..Len(ps) |-> [path |-> ps[i], dir |-> EndsWithSlash(ps[i])]] :
        ps \in { q \in UNION {[1..n -> EntryPaths] : n \in 0..MaxEntries} :
                    \A i, j \in 1..Len(q) : i # j => q[i] # q[j] } }

TreeInit ==
    /\ zipEntries \in ArchiveIndexes
    /\ basePath \in BasePaths
    /\ listing = <<>>
    /\ treePc = "start"
    /\ frontier = {}
    /\ walked = {}
    /\ SanIdle
    /\ GateIdle
    /\ MainIdle
    /\ ExplIdle
    /\ LruIdle

\* getEntriesAtPath(zip, basePath, zipUri)
ListChildren ==
    /\ treePc = "start"
    /\ listing' = getEntriesAtPath(zipEntries, basePath)
    /\ treePc' = "listed"
    /\ UNCHANGED <<zipEntries, basePath, frontier, walked,
                   sanVars, gateVars, mainVars, explVars, lruVars>>

TreeNext == ListChildren

SpecTree == TreeInit /\ [][TreeNext]_vars

(***************************************************************************)
(* Spec: the content provider.  Requests run as asynchronous tasks on one  *)
(* event loop: each action below is the code a task runs between two       *)
(* suspension points (the awaits of readFile, JSZip.loadAsync and          *)
(* file.async); settings and the archive file change between such steps.   *)
(***************************************************************************)
\* the raw internal paths requested: the entries f, y and k, f by another
\* spelling, the directory d (stored as d/), and a traversal
RequestPaths ==
    { <<"f">>, <<".", "\\", "f">>, <<"y">>, <<"k">>, <<"d">>,
      <<".", ".", "/", "f">> }

\* createZipFileUri(zipPath, internalPath), and the identities without and
\* with an undecodable zipPath
PreviewUris ==
    {[path |-> <<"/">> \o r, zipArg |-> "z"] : r \in RequestPaths \ {<<".", "\\", "f">>}}
    \cup {[path |-> <<"/">> \o r, zipArg |-> a] :
            r \in {<<"f">>, <<".", ".", "/", "f">>}, a \in {"", "%"}}

ExtractArgs == {[path |-> r, zipArg |-> "z"] : r \in RequestPaths}

SettingsValues ==
    [maxFileSize : {<<>>, <<1>>}, maxCompressionRatio : {<<>>, <<2>>},
     maxCacheSize : {<<>>}]

FileStates == {"missing", "corrupt", "archive"}

Init ==
    /\ settings = NoSettings
    /\ fs = [a \in ArchivePaths |-> IF a = "z" THEN "archive" ELSE "missing"]
    /\ contentCache = <<>>
    /\ cacheOrder = <<>>
    /\ proc = [p \in Procs |-> IdleProc]
    /\ SanIdle
    /\ GateIdle
    /\ TreeIdle
    /\ ExplIdle
    /\ LruIdle

\* the request of p ends with outcome o and returned text t
Finish(p, fields, o, t) ==
    proc' = [proc EXCEPT ![p] = [fields EXCEPT !.pc = "done", !.outcome = o, !.text = t]]

\* provideTextDocumentContent(uri), up to its first await
StartPreview(p, uri) ==
    /\ proc[p].pc = "idle"
    /\ LET cacheKey == CacheKey(uri)
           req      == [IdleProc EXCEPT !.kind = "preview", !.path = uri.path,
                                        !.zipArg = uri.zipArg]
           decoded  == DecodeZipPath(uri.zipArg)
           internalPath == sanitizeZipPath(RawInternalPath(uri.path))
           cached   == getFromCache(contentCache, cacheOrder, cacheKey)
       IN  /\ cacheOrder' = cached.order
           /\ IF cached.value # Null
              THEN Finish(p, req, "CacheHit", cached.value)
              ELSE IF decoded.throws
              THEN Finish(p, req, "Thrown", <<>>)
              ELSE IF decoded.zipPath = ""
              THEN Finish(p, req, "MissingZipPath", <<>>)
              ELSE IF internalPath = Null
              THEN Finish(p, req, "InvalidPath", <<>>)
              ELSE proc' = [proc EXCEPT ![p] =
                              [req EXCEPT !.pc = "readFile", !.readStarted = TRUE,
                                          !.internalPath = internalPath]]
    /\ UNCHANGED <<settings, fs, contentCache, sanVars, gateVars, treeVars, explVars, lruVars>>

\* provideTextDocumentContent: fs.promises.readFile settles
PreviewReadFileDone(p) ==
    /\ proc[p].pc = "readFile"
    /\ proc[p].kind = "preview"
    /\ IF fs[proc[p].zipArg] = "missing"
       THEN Finish(p, proc[p], "ErrorReading", <<>>)
       ELSE proc' = [proc EXCEPT ![p].pc = "loadAsync", ![p].data = fs[proc[p].zipArg]]
    /\ UNCHANGED <<settings, fs, contentCache, cacheOrder, sanVars, gateVars, treeVars, explVars, lruVars>>

\* provideTextDocumentContent: JSZip.loadAsync settles; the lookup, the two
\* checks and the start of file.async('string')
PreviewLoadDone(p) ==
    /\ proc[p].pc = "loadAsync"
    /\ proc[p].kind = "preview"
    /\ IF proc[p].data = "corrupt"
       THEN Finish(p, proc[p], "ErrorReading", <<>>)
       ELSE LET zip    == ArchiveOf(proc[p].data)
                file   == FindFile(zip, proc[p].internalPath)
                looked == [proc[p] EXCEPT !.zip = proc[p].data, !.file = file,
                                          !.lookedUp = proc[p].internalPath]
                cfg    == getConfig(settings)
            IN  IF file = Null
                THEN Finish(p, looked, "NotFound", <<>>)
                ELSE LET verdict == PreviewGate(zip[file].compressedSize,
                                                zip[file].uncompressedSize,
                                                cfg.maxFileSize, cfg.maxCompressionRatio)
                     IN  IF verdict # "Permitted"
                         THEN Finish(p, looked, verdict, <<>>)
                         ELSE proc' = [proc EXCEPT ![p] =
                                         [looked EXCEPT !.pc = "decode",
                                                        !.decodeStarted = TRUE]]
    /\ UNCHANGED <<settings, fs, contentCache, cacheOrder, sanVars, gateVars, treeVars, explVars, lruVars>>

\* a preview that also caches the message of a failed decode
PreviewDecodeDoneCachesError(p) ==
    /\ proc[p].pc = "decode"
    /\ proc[p].kind = "preview"
    /\ LET entry == ArchiveOf(proc[p].zip)[proc[p].file]
           text  == IF entry.damaged THEN <<"Error reading file">> ELSE entry.content
           added == addToCache(contentCache, cacheOrder,
                               CacheKey([path |-> proc[p].path, zipArg |-> proc[p].zipArg]),
                               text, getConfig(settings).maxCacheSize)
       IN  /\ IF entry.damaged
              THEN Finish(p, proc[p], "ErrorReading", <<>>)
              ELSE Finish(p, proc[p], "Content", entry.content)
           /\ contentCache' = added.map
           /\ cacheOrder' = added.order
    /\ UNCHANGED <<settings, fs, sanVars, gateVars, treeVars, explVars, lruVars>>

\* provideTextDocumentContent: file.async('string') settles; addToCache
PreviewDecodeDone(p) ==
    /\ proc[p].pc = "decode"
    /\ proc[p].kind = "preview"
    /\ LET entry == ArchiveOf(proc[p].zip)[proc[p].file]
           added == addToCache(contentCache, cacheOrder,
                               CacheKey([path |-> proc[p].path, zipArg |-> proc[p].zipArg]),
                               entry.content, getConfig(settings).maxCacheSize)
       IN  IF entry.damaged
           THEN /\ Finish(p, proc[p], "ErrorReading", <<>>)
                /\ UNCHANGED <<contentCache, cacheOrder>>
           ELSE /\ Finish(p, proc[p], "Content", entry.content)
                /\ contentCache' = added.map
                /\ cacheOrder' = added.order
    /\ UNCHANGED <<settings, fs, sanVars, gateVars, treeVars, explVars, lruVars>>

\* an extraction that goes on with the raw path when the sanitizer rejects it
StartExtractNoNullCheck(p, args) ==
    /\ proc[p].pc = "idle"
    /\ LET req      == [IdleProc EXCEPT !.kind = "extract", !.path = args.path,
                                        !.zipArg = args.zipArg]
           safePath == sanitizeZipPath(args.path)
       IN  proc' = [proc EXCEPT ![p] =
                      [req EXCEPT !.pc = "readFile", !.readStarted = TRUE,
                                  !.internalPath = IF safePath = Null THEN args.path
                                                   ELSE safePath]]
    /\ UNCHANGED <<settings, fs, contentCache, cacheOrder, sanVars, gateVars, treeVars, explVars, lruVars>>

\* extractFileFromZip(zipPath, internalPath), up to its first await
StartExtract(p, args) ==
    /\ proc[p].pc = "idle"
    /\ LET req      == [IdleProc EXCEPT !.kind = "extract", !.path = args.path,
                                        !.zipArg = args.zipArg]
           safePath == sanitizeZipPath(args.path)
       IN  IF safePath = Null
           THEN Finish(p, req, "InvalidPath", <<>>)
           ELSE proc' = [proc EXCEPT ![p] =
                           [req EXCEPT !.pc = "readFile", !.readStarted = TRUE,
                                       !.internalPath = safePath]]
    /\ UNCHANGED <<settings, fs, contentCache, cacheOrder, sanVars, gateVars, treeVars, explVars, lruVars>>

\* extractFileFromZip: fs.promises.readFile settles
ExtractReadFileDone(p) ==
    /\ proc[p].pc = "readFile"
    /\ proc[p].kind = "extract"
    /\ IF fs[proc[p].zipArg] = "missing"
       THEN Finish(p, proc[p], "Rejected", <<>>)
       ELSE proc' = [proc EXCEPT ![p].pc = "loadAsync", ![p].data = fs[proc[p].zipArg]]
    /\ UNCHANGED <<settings, fs, contentCache, cacheOrder, sanVars, gateVars, treeVars, explVars, lruVars>>

\* extractFileFromZip: JSZip.loadAsync settles; the lookup, the two checks
\* and the start of file.async('nodebuffer')
ExtractLoadDone(p) ==
    /\ proc[p].pc = "loadAsync"
    /\ proc[p].kind = "extract"
    /\ IF proc[p].data = "corrupt"
       THEN Finish(p, proc[p], "Rejected", <<>>)
       ELSE LET zip    == ArchiveOf(proc[p].data)
                file   == FindFile(zip, proc[p].internalPath)
                looked == [proc[p] EXCEPT !.zip = proc[p].data, !.file = file,
                                          !.lookedUp = proc[p].internalPath]
                cfg    == getConfig(settings)
            IN  IF file = Null
                THEN Finish(p, looked, "NotFound", <<>>)
                ELSE LET verdict == ExtractGate(zip[file].compressedSize,
                                                zip[file].uncompressedSize,
                                                cfg.maxFileSize, cfg.maxCompressionRatio)
                     IN  IF verdict # "Permitted"
                         THEN Finish(p, looked, verdict, <<>>)
                         ELSE proc' = [proc EXCEPT ![p] =
                                         [looked EXCEPT !.pc = "decode",
                                                        !.decodeStarted = TRUE]]
    /\ UNCHANGED <<settings, fs, contentCache, cacheOrder, sanVars, gateVars, treeVars, explVars, lruVars>>

\* extractFileFromZip: file.async('nodebuffer') settles
ExtractDecodeDone(p) ==
    /\ proc[p].pc = "decode"
    /\ proc[p].kind = "extract"
    /\ LET entry == ArchiveOf(proc[p].zip)[proc[p].file]
       IN  IF entry.damaged
           THEN Finish(p, proc[p], "Rejected", <<>>)
           ELSE Finish(p, proc[p], "Bytes", entry.content)
    /\ UNCHANGED <<settings, fs, contentCache, cacheOrder, sanVars, gateVars, treeVars, explVars, lruVars>>

\* the caller has taken the result; the slot is free again
Return(p) ==
    /\ proc[p].pc = "done"
    /\ proc' = [proc EXCEPT ![p] = IdleProc]
    /\ UNCHANGED <<settings, fs, contentCache, cacheOrder, sanVars, gateVars, treeVars, explVars, lruVars>>

\* the user changes the zipView settings
ChangeSettings ==
    /\ \E s \in SettingsValues \ {settings} : settings' = s
    /\ UNCHANGED <<fs, contentCache, cacheOrder, proc, sanVars, gateVars, treeVars, explVars, lruVars>>

\* the archive file z is written, damaged or deleted
WriteFile ==
    /\ \E f \in FileStates \ {fs["z"]} : fs' = [fs EXCEPT !["z"] = f]
    /\ UNCHANGED <<settings, contentCache, cacheOrder, proc, sanVars, gateVars, treeVars, explVars, lruVars>>

Next ==
    \/ \E p \in Procs, uri \in PreviewUris : StartPreview(p, uri)
    \/ \E p \in Procs : PreviewReadFileDone(p)
    \/ \E p \in Procs : PreviewLoadDone(p)
    \/ \E p \in Procs : PreviewDecodeDone(p)
    \/ \E p \in Procs, args \in ExtractArgs : StartExtract(p, args)
    \/ \E p \in Procs : ExtractReadFileDone(p)
    \/ \E p \in Procs : ExtractLoadDone(p)
    \/ \E p \in Procs : ExtractDecodeDone(p)
    \/ \E p \in Procs : Return(p)
    \/ ChangeSettings
    \/ WriteFile

Spec == Init /\ [][Next]_vars

(***************************************************************************)
(* SpecLru: the content cache under every sequence of its operations on    *)
(* four keys, with the maximum cache size changed in between.  put is      *)
(* addToCache as provideTextDocumentContent calls it after a decode, get   *)
(* is getFromCache as it calls it first, invalidate is the public method.  *)
(* recency and lastOp only record what was done.                           *)
(***************************************************************************)
LruUris == {[path |-> <<"/", n>>, zipArg |-> "z"] : n \in {"A", "B", "C", "D"}}

\* the values of zipView.maxCacheSize: unset (the default of 50), 0, 1, 2, 3
LruSizes == {<<>>, <<0>>, <<1>>, <<2>>, <<3>>}

\* the text decoded for an identity
TextOf(uri) == <<"text of">> \o Tail(uri.path)

\* k moved to the most recent end of seq
Touch(seq, k) ==
    Append(IF IndexOf(seq, k) # 0 THEN Splice(seq, IndexOf(seq, k)) ELSE seq, k)

LruInit ==
    /\ settings = NoSettings
    /\ fs = [a \in ArchivePaths |-> "missing"]
    /\ contentCache = <<>>
    /\ cacheOrder = <<>>
    /\ proc = [p \in Procs |-> IdleProc]
    /\ recency = <<>>
    /\ lastOp = "none"
    /\ SanIdle
    /\ GateIdle
    /\ TreeIdle
    /\ ExplIdle

\* addToCache(cacheKey, content); with a maximum of 0 or less the eviction
\* loop never ends
Put(uri) ==
    /\ lastOp # "evicting"
    /\ LET key   == CacheKey(uri)
           max   == getConfig(settings).maxCacheSize
           existingIndex == IndexOf(cacheOrder, key)
           order1 == IF existingIndex # 0 THEN Splice(cacheOrder, existingIndex)
                     ELSE cacheOrder
           added == addToCache(contentCache, cacheOrder, key, TextOf(uri), max)
       IN  IF max <= 0
           THEN /\ contentCache' = EvictAll(contentCache, order1)
                /\ cacheOrder' = <<>>
                /\ lastOp' = "evicting"
                /\ UNCHANGED recency
           ELSE /\ contentCache' = added.map
                /\ cacheOrder' = added.order
                /\ lastOp' = "put"
                /\ recency' = Touch(recency, key)
    /\ UNCHANGED <<settings, fs, proc, sanVars, gateVars, treeVars, explVars>>

\* getFromCache(cacheKey)
Get(uri) ==
    /\ lastOp # "evicting"
    /\ LET key    == CacheKey(uri)
           cached == getFromCache(contentCache, cacheOrder, key)
       IN  /\ cacheOrder' = cached.order
           /\ lastOp' = IF cached.value # Null THEN "get" ELSE "miss"
           /\ recency' = IF cached.value # Null THEN Touch(recency, key) ELSE recency
    /\ UNCHANGED <<settings, fs, contentCache, proc, sanVars, gateVars, treeVars, explVars>>

\* invalidate(uri)
Invalidate(uri) ==
    /\ lastOp # "evicting"
    /\ LET removed == invalidate(contentCache, cacheOrder, CacheKey(uri))
       IN  /\ contentCache' = removed.map
           /\ cacheOrder' = removed.order
    /\ lastOp' = "invalidate"
    /\ UNCHANGED <<settings, fs, proc, recency, sanVars, gateVars, treeVars, explVars>>

\* the user changes zipView.maxCacheSize
ChangeMaxCacheSize ==
    /\ lastOp # "evicting"
    /\ \E n \in LruSizes \ {settings.maxCacheSize} :
          settings' = [settings EXCEPT !.maxCacheSize = n]
    /\ lastOp' = "config"
    /\ UNCHANGED <<fs, contentCache, cacheOrder, proc, recency,
                   sanVars, gateVars, treeVars, explVars>>

LruNext ==
    \/ \E uri \in LruUris : Put(uri)
    \/ \E uri \in LruUris : Get(uri)
    \/ \E uri \in LruUris : Invalidate(uri)
    \/ ChangeMaxCacheSize

SpecLru == LruInit /\ [][LruNext]_vars

(***************************************************************************)
(* The explorer provider.  getChildren calls, scans and notification       *)
(* handlers run as tasks on the same event loop: each action is the code a *)
(* task runs between two suspension points.  An archive index is           *)
(* identified by the file content it was parsed from.                      *)
(***************************************************************************)
\* the entry paths of an index in the order zip.forEach visits them
EntryOrder(data) ==
    IF data = "archive2"
    THEN << <<"d", "/">>, <<"f">>, <<"k">>, <<"y">>, <<"g">> >>
    ELSE << <<"d", "/">>, <<"f">>, <<"k">>, <<"y">> >>

\* the entries zip.forEach hands to the callback of getEntriesAtPath
ZipEntriesOf(data) ==
    [i \in 1..Len(EntryOrder(data)) |->
        [path |-> EntryOrder(data)[i],
         dir  |-> ArchiveOf(data)[EntryOrder(data)[i]].dir]]

\* the tree items getChildren is called with: none (the root), the item of
\* an archive, and the item of the folder d of the archive z
RootElement == [type |-> "root", zipUri |-> "", relativePath |-> <<>>]

ZipFileElement(a) == [type |-> "zipFile", zipUri |-> a, relativePath |-> <<>>]

FolderElement(a, dir) == [type |-> "folder", zipUri |-> a, relativePath |-> dir]

\* the file states an archive path goes through
FileVersions == {"missing", "corrupt", "archive", "archive2"}

\* the call of l returns
FinishLoad(l, fields, o, idx, items) ==
    loads' = [loads EXCEPT ![l] =
                [fields EXCEPT !.pc = "done", !.outcome = o, !.index = idx,
                               !.children = items]]

\* a getChildren whose loadZip never looks into zipContentsCache
GetChildrenNoReuse(l, element) ==
    /\ loads[l].pc = "idle"
    /\ LET call == [IdleLoad EXCEPT !.element = element.type,
                                    !.path = element.zipUri,
                                    !.basePath = element.relativePath]
       IN  IF element.type = "root"
           THEN loads' = [loads EXCEPT ![l] =
                            [call EXCEPT !.pc = "done", !.outcome = "Root",
                                         !.roots = zipFiles]]
           ELSE loads' = [loads EXCEPT ![l] = [call EXCEPT !.pc = "readFile"]]
    /\ invalidated' = invalidated \ {element.zipUri}
    /\ treeDataChanged' = (treeDataChanged /\ element.type # "root")
    /\ UNCHANGED <<zipFiles, zipContentsCache, scans, pending, disposed,
                   latestScan, sanVars, gateVars, treeVars, mainVars, lruVars>>

\* getChildren(element), up to the first await of loadZip
GetChildren(l, element) ==
    /\ loads[l].pc = "idle"
    /\ LET call == [IdleLoad EXCEPT !.element = element.type,
                                    !.path = element.zipUri,
                                    !.basePath = element.relativePath]
       IN  IF element.type = "root"
           THEN loads' = [loads EXCEPT ![l] =
                            [call EXCEPT !.pc = "done", !.outcome = "Root",
                                         !.roots = zipFiles]]
           ELSE IF element.zipUri \in DOMAIN zipContentsCache
           THEN FinishLoad(l, [call EXCEPT !.hit = TRUE], "Listed",
                           zipContentsCache[element.zipUri],
                           getEntriesAtPath(ZipEntriesOf(zipContentsCache[element.zipUri]),
                                            element.relativePath))
           ELSE loads' = [loads EXCEPT ![l] = [call EXCEPT !.pc = "readFile"]]
    /\ invalidated' = invalidated \ {element.zipUri}
    /\ treeDataChanged' = (treeDataChanged /\ element.type # "root")
    /\ UNCHANGED <<zipFiles, zipContentsCache, scans, pending, disposed,
                   latestScan, sanVars, gateVars, treeVars, mainVars, lruVars>>

\* loadZip: fs.promises.readFile settles
LoadReadFileDone(l) ==
    /\ loads[l].pc = "readFile"
    /\ IF fs[loads[l].path] = "missing"
       THEN FinishLoad(l, loads[l], "Empty", "none", <<>>)
       ELSE loads' = [loads EXCEPT ![l].pc = "loadAsync", ![l].data = fs[loads[l].path]]
    /\ UNCHANGED <<zipFiles, zipContentsCache, scans, pending, invalidated, disposed,
                   treeDataChanged,
                   latestScan, sanVars, gateVars, treeVars, mainVars, lruVars>>

\* a loadZip that keeps the entry another load has stored meanwhile
LoadAsyncDoneFirstWins(l) ==
    /\ loads[l].pc = "loadAsync"
    /\ IF loads[l].data = "corrupt"
       THEN /\ FinishLoad(l, loads[l], "Empty", "none", <<>>)
            /\ UNCHANGED zipContentsCache
       ELSE /\ zipContentsCache' =
                  IF loads[l].path \in DOMAIN zipContentsCache THEN zipContentsCache
                  ELSE MapSet(zipContentsCache, loads[l].path, loads[l].data)
            /\ FinishLoad(l, loads[l], "Listed", loads[l].data,
                          getEntriesAtPath(ZipEntriesOf(loads[l].data), loads[l].basePath))
    /\ UNCHANGED <<zipFiles, scans, pending, invalidated, disposed,
                   treeDataChanged,
                   latestScan, sanVars, gateVars, treeVars, mainVars, lruVars>>

\* a loadZip that caches what it read even when JSZip.loadAsync rejects it
LoadAsyncDoneCachesFailure(l) ==
    /\ loads[l].pc = "loadAsync"
    /\ zipContentsCache' = MapSet(zipContentsCache, loads[l].path, loads[l].data)
    /\ IF loads[l].data = "corrupt"
       THEN FinishLoad(l, loads[l], "Empty", "none", <<>>)
       ELSE FinishLoad(l, loads[l], "Listed", loads[l].data,
                       getEntriesAtPath(ZipEntriesOf(loads[l].data), loads[l].basePath))
    /\ UNCHANGED <<zipFiles, scans, pending, invalidated, disposed,
                   treeDataChanged,
                   latestScan, sanVars, gateVars, treeVars, mainVars, lruVars>>

\* loadZip: JSZip.loadAsync settles; zipContentsCache.set, and
\* getEntriesAtPath in getChildren
LoadAsyncDone(l) ==
    /\ loads[l].pc = "loadAsync"
    /\ IF loads[l].data = "corrupt"
       THEN /\ FinishLoad(l, loads[l], "Empty", "none", <<>>)
            /\ UNCHANGED zipContentsCache
       ELSE /\ zipContentsCache' = MapSet(zipContentsCache, loads[l].path, loads[l].data)
            /\ FinishLoad(l, loads[l], "Listed", loads[l].data,
                          getEntriesAtPath(ZipEntriesOf(loads[l].data), loads[l].basePath))
    /\ UNCHANGED <<zipFiles, scans, pending, invalidated, disposed,
                   treeDataChanged,
                   latestScan, sanVars, gateVars, treeVars, mainVars, lruVars>>

\* the tree view has taken the children; the slot is free again
GetChildrenReturn(l) ==
    /\ loads[l].pc = "done"
    /\ loads' = [loads EXCEPT ![l] = IdleLoad]
    /\ UNCHANGED <<zipFiles, zipContentsCache, scans, pending, invalidated, disposed,
                   treeDataChanged,
                   latestScan, sanVars, gateVars, treeVars, mainVars, lruVars>>

\* the notification the watcher raises when the file at a path goes from
\* one state to another
NotificationFor(from, to) ==
    IF from = "missing" THEN "created"
    ELSE IF to = "missing" THEN "deleted"
    ELSE "changed"

\* the file at path a is written, damaged or deleted; the watcher, while it
\* is not disposed, queues its notification (one per path at a time)
TouchFile(a, f) ==
    /\ fs[a] # f
    /\ pending[a] = "none"
    /\ fs' = [fs EXCEPT ![a] = f]
    /\ pending' = IF disposed THEN pending
                  ELSE [pending EXCEPT ![a] = NotificationFor(fs[a], f)]
    /\ UNCHANGED <<settings, contentCache, cacheOrder, proc,
                   zipFiles, zipContentsCache, loads, scans, invalidated, disposed,
                   treeDataChanged, latestScan,
                   sanVars, gateVars, treeVars, lruVars>>

\* an invalidateCache that deletes nothing
invalidateCacheNoDelete(cache, a) == cache

\* invalidateCache(uri)
invalidateCache(cache, a) == MapDelete(cache, a)

\* scanForZipFiles(), up to the await of findFiles
StartScan(s) ==
    /\ scans[s].pc = "idle"
    /\ scans' = [scans EXCEPT ![s] = [pc |-> "finding", found |-> {}]]
    /\ latestScan' = [slot |-> s, completed |-> FALSE, found |-> {}]

\* watcher.onDidCreate: invalidateCache, scanForZipFiles
OnDidCreate(a, s) ==
    /\ ~disposed
    /\ pending[a] = "created"
    /\ pending' = [pending EXCEPT ![a] = "none"]
    /\ zipContentsCache' = invalidateCache(zipContentsCache, a)
    /\ invalidated' = invalidated \cup {a}
    /\ StartScan(s)
    /\ UNCHANGED <<zipFiles, loads, disposed,
                   treeDataChanged,
                   sanVars, gateVars, treeVars, mainVars, lruVars>>

\* watcher.onDidDelete: invalidateCache, scanForZipFiles
OnDidDelete(a, s) ==
    /\ ~disposed
    /\ pending[a] = "deleted"
    /\ pending' = [pending EXCEPT ![a] = "none"]
    /\ zipContentsCache' = invalidateCache(zipContentsCache, a)
    /\ invalidated' = invalidated \cup {a}
    /\ StartScan(s)
    /\ UNCHANGED <<zipFiles, loads, disposed,
                   treeDataChanged,
                   sanVars, gateVars, treeVars, mainVars, lruVars>>

\* watcher.onDidChange: invalidateCache, refresh (the emitter fires)
OnDidChange(a) ==
    /\ ~disposed
    /\ pending[a] = "changed"
    /\ pending' = [pending EXCEPT ![a] = "none"]
    /\ zipContentsCache' = invalidateCache(zipContentsCache, a)
    /\ invalidated' = invalidated \cup {a}
    /\ treeDataChanged' = TRUE
    /\ UNCHANGED <<zipFiles, loads, scans, disposed,
                   latestScan, sanVars, gateVars, treeVars, mainVars, lruVars>>

\* onDidChangeWorkspaceFolders: setupWatchers, scanForZipFiles
OnDidChangeWorkspaceFolders(s) ==
    /\ ~disposed
    /\ StartScan(s)
    /\ UNCHANGED <<zipFiles, zipContentsCache, loads, pending, invalidated, disposed,
                   treeDataChanged,
                   sanVars, gateVars, treeVars, mainVars, lruVars>>

\* scanForZipFiles: findFiles collects the archives present
ScanFindFiles(s) ==
    /\ scans[s].pc = "finding"
    /\ scans' = [scans EXCEPT ![s] =
                    [pc |-> "found", found |-> {a \in ArchivePaths : fs[a] # "missing"}]]
    /\ UNCHANGED <<zipFiles, zipContentsCache, loads, pending, invalidated, disposed,
                   treeDataChanged,
                   latestScan, sanVars, gateVars, treeVars, mainVars, lruVars>>

\* scanForZipFiles: the await of findFiles resumes; zipFiles is assigned and
\* refresh fires the emitter, unless it has been disposed
ScanDone(s) ==
    /\ scans[s].pc = "found"
    /\ zipFiles' = scans[s].found
    /\ scans' = [scans EXCEPT ![s] = IdleScan]
    /\ treeDataChanged' = (treeDataChanged \/ ~disposed)
    /\ latestScan' = IF latestScan.slot = s
                     THEN [latestScan EXCEPT !.completed = TRUE, !.found = scans[s].found]
                     ELSE latestScan
    /\ UNCHANGED <<zipContentsCache, loads, pending, invalidated, disposed,
                   sanVars, gateVars, treeVars, mainVars, lruVars>>

\* the explorer provider after its constructor: the watchers are set up
\* and the first scan is in flight
ExplorerConstructed ==
    /\ zipFiles = {}
    /\ zipContentsCache = <<>>
    /\ loads = [l \in Loaders |-> IdleLoad]
    /\ scans = [s \in ScanSlots |-> IF s = "s1" THEN [pc |-> "finding", found |-> {}]
                                    ELSE IdleScan]
    /\ pending = [a \in ArchivePaths |-> "none"]
    /\ invalidated = {}
    /\ disposed = FALSE
    /\ treeDataChanged = FALSE
    /\ latestScan = [slot |-> "s1", completed |-> FALSE, found |-> {}]

(***************************************************************************)
(* SpecExplorer: the explorer provider on a workspace with the archives z  *)
(* and w.  z is rewritten, damaged, deleted and created again while        *)
(* listings of z and w are in flight.                                      *)
(***************************************************************************)
ExplorerElements ==
    {RootElement, ZipFileElement("z"), ZipFileElement("w")}

ExplorerInit ==
    /\ ExplorerConstructed
    /\ settings = NoSettings
    /\ fs = [a \in ArchivePaths |-> "archive"]
    /\ contentCache = <<>>
    /\ cacheOrder = <<>>
    /\ proc = [p \in Procs |-> IdleProc]
    /\ SanIdle
    /\ GateIdle
    /\ TreeIdle
    /\ LruIdle

ExplorerNext ==
    \/ \E l \in Loaders, element \in ExplorerElements : GetChildren(l, element)
    \/ \E l \in Loaders : LoadReadFileDone(l)
    \/ \E l \in Loaders : LoadAsyncDone(l)
    \/ \E l \in Loaders : GetChildrenReturn(l)
    \/ \E f \in FileVersions : TouchFile("z", f)
    \/ OnDidCreate("z", "s1")
    \/ OnDidDelete("z", "s1")
    \/ OnDidChange("z")
    \/ OnDidChangeWorkspaceFolders("s1")
    \/ ScanFindFiles("s1")
    \/ ScanDone("s1")

SpecExplorer == ExplorerInit /\ [][ExplorerNext]_vars

(***************************************************************************)
(* SpecExtension: the two providers as activate() wires them, on the       *)
(* archive z: one tree listing and one preview at a time, the file         *)
(* rewritten, deleted and created again, its notifications handled by the  *)
(* explorer provider's watchers, and the teardown.                         *)
(***************************************************************************)
\* the subscription that disposes both providers; the watchers are disposed
\* with it and deliver nothing afterwards
Dispose ==
    /\ ~disposed
    /\ disposed' = TRUE
    /\ pending' = [a \in ArchivePaths |-> "none"]
    /\ contentCache' = <<>>
    /\ cacheOrder' = <<>>
    /\ UNCHANGED <<settings, fs, proc, zipFiles, zipContentsCache, loads, scans,
                   invalidated, treeDataChanged, latestScan,
                   sanVars, gateVars, treeVars, lruVars>>

\* the identities of the entry f of z: as the tree item names it, and by
\* another spelling of the same internal path
ExtensionUris ==
    {[path |-> <<"/", "f">>, zipArg |-> "z"],
     [path |-> <<"/", ".", "/", "f">>, zipArg |-> "z"]}

ExtensionElements == {ZipFileElement("z"), FolderElement("z", <<"d", "/">>)}

ExtensionFiles == {"missing", "archive", "archive2"}

\* the editor resolves a zipview document while the content provider is
\* registered
OpenDocument(p, uri) == ~disposed /\ StartPreview(p, uri)

\* the tree view asks for the children of an item while it exists
ExpandItem(l, element) == ~disposed /\ GetChildren(l, element)

ExtensionInit ==
    /\ ExplorerConstructed
    /\ settings = NoSettings
    /\ fs = [a \in ArchivePaths |-> IF a = "z" THEN "archive" ELSE "missing"]
    /\ contentCache = <<>>
    /\ cacheOrder = <<>>
    /\ proc = [p \in Procs |-> IdleProc]
    /\ SanIdle
    /\ GateIdle
    /\ TreeIdle
    /\ LruIdle

ExtensionNext ==
    \/ \E uri \in ExtensionUris : OpenDocument("p1", uri)
    \/ PreviewReadFileDone("p1")
    \/ PreviewLoadDone("p1")
    \/ PreviewDecodeDone("p1")
    \/ Return("p1")
    \/ \E element \in ExtensionElements : ExpandItem("l1", element)
    \/ LoadReadFileDone("l1")
    \/ LoadAsyncDone("l1")
    \/ GetChildrenReturn("l1")
    \/ \E f \in ExtensionFiles : TouchFile("z", f)
    \/ OnDidCreate("z", "s1")
    \/ OnDidDelete("z", "s1")
    \/ OnDidChange("z")
    \/ ScanFindFiles("s1")
    \/ ScanDone("s1")
    \/ Dispose

SpecExtension == ExtensionInit /\ [][ExtensionNext]_vars

(***************************************************************************)
(* Properties of sanitizeZipPath (SpecSanitize).  The segments of a raw    *)
(* path are defined here by a left-to-right scan that cuts at both         *)
(* separators, independently of the replace / split pipeline above.        *)
(***************************************************************************)
IsSeparator(c) == c = "/" \/ c = "\\"

RECURSIVE ScanSegments(_, _, _)
ScanSegments(p, current, done) ==
    IF p = <<>> THEN Append(done, current)
    ELSE IF IsSeparator(Head(p))
    THEN ScanSegments(Tail(p), <<>>, Append(done, current))
    ELSE ScanSegments(Tail(p), Append(current, Head(p)), done)

SegmentsOf(p) == ScanSegments(p, <<>>, <<>>)

HasSegment(p, seg) == \E i \in 1..Len(SegmentsOf(p)) : SegmentsOf(p)[i] = seg

IsLetterColon(seg) == \E l \in Letters : seg = <<l, ":">>

HasDriveSegment(p) ==
    \E i \in 1..Len(SegmentsOf(p)) : IsLetterColon(SegmentsOf(p)[i])

KeptSegments(p) ==
    SelectSeq(SegmentsOf(p), LAMBDA seg : seg # <<>> /\ seg # <<".">>)

RECURSIVE SlashJoin(_)
SlashJoin(segs) ==
    IF segs = <<>> THEN <<>>
    ELSE IF Len(segs) = 1 THEN segs[1]
    ELSE SlashJoin(SubSeq(segs, 1, Len(segs) - 1)) \o <<"/">> \o segs[Len(segs)]

\* C3: a raw path with a segment exactly ".." anywhere (segments cut at "/"
\* and at "\") is rejected: sanitizeZipPath returns null for it.
C3_DotDotRejected ==
    (sanPc \in {"sanitized", "resanitized"} /\ HasSegment(rawPath, <<".", ".">>))
        => sanitized = Null

C3_Witness ==
    /\ sanPc = "sanitized"
    /\ rawPath = <<"a", "\\", ".", ".">>
    /\ sanitized = Null

\* C4: sanitizeZipPath is idempotent: sanitizing a path it returned returns
\* that same path, and never null.
C4_Idempotent ==
    sanPc = "resanitized" => (resanitized # Null /\ resanitized = sanitized)

C4_Witness ==
    /\ sanPc = "resanitized"
    /\ rawPath = <<".", "\\", "a", "\\", "1">>
    /\ sanitized = <<"a", "/", "1">>

\* C5: sanitizeZipPath returns null exactly when the raw path is empty, has a
\* ".." segment, has a drive-letter segment, or keeps no segment once the
\* empty and "." segments are dropped; otherwise it returns the kept
\* segments joined with "/", a non-empty path without backslash, without
\* leading slash and without an empty, ".", ".." or drive-letter segment.
C5_SanitizeResult ==
    sanPc \in {"sanitized", "resanitized"} =>
        LET kept     == KeptSegments(rawPath)
            rejected == \/ rawPath = <<>>
                        \/ HasSegment(rawPath, <<".", ".">>)
                        \/ HasDriveSegment(rawPath)
                        \/ kept = <<>>
        IN  /\ (sanitized = Null) <=> rejected
            /\ sanitized # Null =>
                /\ sanitized = SlashJoin(kept)
                /\ sanitized # <<>>
                /\ \A i \in 1..Len(sanitized) : sanitized[i] # "\\"
                /\ sanitized[1] # "/"
                /\ \A i \in 1..Len(SegmentsOf(sanitized)) :
                      LET seg == SegmentsOf(sanitized)[i]
                      IN  /\ seg \notin {<<>>, <<".">>, <<".", ".">>}
                          /\ ~IsLetterColon(seg)

C5_Witness ==
    /\ sanPc = "sanitized"
    /\ rawPath = <<"a", "\\", "1", "/", "a">>
    /\ sanitized = <<"a", "/", "1", "/", "a">>

(***************************************************************************)
(* Properties of the safety gate (SpecGate).                               *)
(***************************************************************************)
\* C6: the gate permits an entry exactly when uncompressedSize <= maxBytes
\* and either both sizes are 0 or compressedSize > 0 and uncompressedSize <=
\* maxRatio * compressedSize, in both callers; (0,0) is permitted, (0,100)
\* is rejected, (10,2000) is rejected and (10,500) is permitted at ratio 100.
C6_GatePermitsExactly ==
    gateOut.by \in {"preview", "extract"} =>
        LET c         == gateIn.compressedSize
            u         == gateIn.uncompressedSize
            permitted == gateOut.verdict = "Permitted"
        IN  /\ permitted <=>
                  /\ u <= gateIn.maxBytes
                  /\ \/ (c = 0 /\ u = 0)
                     \/ (c > 0 /\ u <= gateIn.maxRatio * c)
            /\ (c = 0 /\ u = 0) => permitted
            /\ (c = 0 /\ u = 100) => ~permitted
            /\ (c = 10 /\ u = 2000 /\ gateIn.maxRatio = 100) => ~permitted
            /\ (c = 10 /\ u = 500 /\ gateIn.maxRatio = 100 /\ gateIn.maxBytes >= 500)
                  => permitted

C6_Witness ==
    /\ gateOut = [by |-> "preview", verdict |-> "Permitted"]
    /\ gateIn = [compressedSize |-> 10, uncompressedSize |-> 500,
                 maxBytes |-> 2000, maxRatio |-> 100]

(***************************************************************************)
(* Properties of getEntriesAtPath (SpecTree).  The direct children of a    *)
(* base are defined here from the entries' segments, independently of the  *)
(* forEach callback.                                                       *)
(***************************************************************************)
Range(seq) == {seq[i] : i \in 1..Len(seq)}

\* the base in its trailing-slash form, empty for the root
BaseWithSlash ==
    IF basePath = <<>> \/ basePath[Len(basePath)] = "/"
    THEN basePath ELSE Append(basePath, "/")

\* the entries strictly below the base
EntriesBelowBase ==
    {e \in Range(zipEntries) :
        /\ Len(e.path) > Len(BaseWithSlash)
        /\ \A i \in 1..Len(BaseWithSlash) : e.path[i] = BaseWithSlash[i]}

\* the non-empty segments of an entry's path after the base
SegmentsBelowBase(e) ==
    SelectSeq(SegmentsOf([i \in 1..(Len(e.path) - Len(BaseWithSlash)) |->
                              e.path[Len(BaseWithSlash) + i]]),
              LAMBDA seg : seg # <<>>)

ExpectedFiles ==
    {[label |-> SegmentsBelowBase(e)[1], type |-> "file", relativePath |-> e.path] :
        e \in {f \in EntriesBelowBase : ~f.dir /\ Len(SegmentsBelowBase(f)) = 1}}

ExpectedFolders ==
    {[label |-> n, type |-> "folder", relativePath |-> BaseWithSlash \o n] :
        n \in {SegmentsBelowBase(e)[1] :
                 e \in {f \in EntriesBelowBase :
                          \/ f.dir /\ Len(SegmentsBelowBase(f)) = 1
                          \/ Len(SegmentsBelowBase(f)) > 1}}}

ExamplePaths ==
    { <<"a", "/">>, <<"a", "/", "b", ".", "t", "x", "t">>,
      <<"a", "/", "c", "/", "d", ".", "t", "x", "t">>, <<"e", ".", "t", "x", "t">> }

\* C8: a listing holds exactly the direct children of the base, each once:
\* a file item for every non-directory entry one segment below the base and
\* one folder item for every distinct first segment of the explicit
\* directories one segment below the base and of the entries further below;
\* for the entries a/, a/b.txt, a/c/d.txt, e.txt the root lists a (folder),
\* e.txt (file) and the base a lists b.txt (file) and c (folder).
C8_DirectChildren ==
    treePc = "listed" =>
        /\ \A i, j \in 1..Len(listing) : i # j => listing[i] # listing[j]
        /\ Range(listing) = ExpectedFiles \cup ExpectedFolders
        /\ ({e.path : e \in Range(zipEntries)} = ExamplePaths /\ basePath = <<>>)
              => listing = << [label |-> <<"a">>, type |-> "folder",
                               relativePath |-> <<"a">>],
                              [label |-> <<"e", ".", "t", "x", "t">>, type |-> "file",
                               relativePath |-> <<"e", ".", "t", "x", "t">>] >>
        /\ ({e.path : e \in Range(zipEntries)} = ExamplePaths /\ basePath = <<"a">>)
              => /\ Len(listing) = 2
                 /\ Range(listing) =
                      { [label |-> <<"b", ".", "t", "x", "t">>, type |-> "file",
                         relativePath |-> <<"a", "/", "b", ".", "t", "x", "t">>],
                        [label |-> <<"c">>, type |-> "folder",
                         relativePath |-> <<"a", "/", "c">>] }

C8_Witness ==
    /\ treePc = "listed"
    /\ basePath = <<"a">>
    /\ {e.path : e \in Range(zipEntries)} =
          { <<"a", "/">>, <<"a", "b", "/", "x">>, <<"a", "/", "c", "/">>,
            <<"a", "/", "c", "/", "d", ".", "t", "x", "t">> }
    /\ Len(listing) = 1
    /\ listing[1].label = <<"c">>

\* a name is not greater than another: it is a prefix of it, or has the
\* lower character at the first place where they differ
NameLeq(a, b) ==
    \/ (Len(a) <= Len(b) /\ \A i \in 1..Len(a) : a[i] = b[i])
    \/ \E k \in 1..Len(a) :
          /\ k <= Len(b)
          /\ \A i \in 1..(k - 1) : a[i] = b[i]
          /\ CharRank(a[k]) < CharRank(b[k])

\* C9: in a listing every folder precedes every file, and the folders and
\* the files are each in non-decreasing name order, whatever the storage
\* order of the entries.
C9_FoldersFirstSorted ==
    treePc = "listed" =>
        \A i, j \in 1..Len(listing) :
            i < j =>
                /\ ~(listing[i].type = "file" /\ listing[j].type = "folder")
                /\ listing[i].type = listing[j].type
                      => NameLeq(listing[i].label, listing[j].label)

C9_Witness ==
    /\ treePc = "listed"
    /\ basePath = <<>>
    /\ Len(zipEntries) = 4
    /\ zipEntries[1].path = <<"e", ".", "t", "x", "t">>
    /\ zipEntries[2].path = <<"a">>
    /\ zipEntries[3].path = <<"a", "b", "/", "x">>
    /\ zipEntries[4].path = <<"a", "/">>
    /\ listing[1].type = "folder" /\ listing[1].label = <<"a">>
    /\ listing[2].type = "folder" /\ listing[2].label = <<"a", "b">>
    /\ listing[3].type = "file" /\ listing[3].label = <<"a">>
    /\ listing[4].type = "file"

\* C10: the relativePath of every file item of a listing is the path of
\* exactly one entry of the archive, and that entry is not a directory.
C10_FileItemIsOneEntry ==
    treePc = "listed" =>
        \A k \in 1..Len(listing) :
            listing[k].type = "file" =>
                LET hits == {i \in 1..Len(zipEntries) :
                                zipEntries[i].path = listing[k].relativePath}
                IN  /\ Cardinality(hits) = 1
                    /\ \A i \in hits : ~zipEntries[i].dir

C10_Witness ==
    /\ treePc = "listed"
    /\ basePath = <<"a", "/">>
    /\ \E k \in 1..Len(listing) :
          /\ listing[k].type = "file"
          /\ listing[k].relativePath = <<"a", "/", "/", "g">>
    /\ \E k \in 1..Len(listing) : listing[k].type = "folder"

(***************************************************************************)
(* Properties of the requests (Spec).                                      *)
(***************************************************************************)
\* the ratio check flags the sizes
RatioFlagged(c, u, maxRatio) == (c = 0 /\ u > 0) \/ (c > 0 /\ u > maxRatio * c)

\* the raw internal path a request was made for
RequestedPath(p) ==
    IF proc[p].kind = "preview" THEN RawInternalPath(proc[p].path) ELSE proc[p].path

\* a decode is pending or has settled only for a request that started one,
\* and a request the gate rejected never started one
C1_DecodeOnlyStarted ==
    \A p \in Procs :
        /\ (proc[p].pc = "decode" \/ proc[p].outcome \in {"Content", "Bytes"})
              => proc[p].decodeStarted
        /\ proc[p].outcome \in {"TooLarge", "SuspiciousRatio"} => ~proc[p].decodeStarted

\* the step that starts a decode comes after the lookup and finds both
\* checks passing under the settings of that step; the step that looks an
\* entry up and finds a check failing ends the request
C1_GateStep(p) ==
    LET cfg     == getConfig(settings)
        entry   == ArchiveOf(proc'[p].zip)[proc'[p].file]
        over    == entry.uncompressedSize > cfg.maxFileSize
        flagged == RatioFlagged(entry.compressedSize, entry.uncompressedSize,
                                cfg.maxCompressionRatio)
    IN  /\ (~proc[p].decodeStarted /\ proc'[p].decodeStarted) =>
              /\ proc[p].pc = "loadAsync"
              /\ proc'[p].lookedUp # Null
              /\ proc'[p].file # Null
              /\ ~over
              /\ ~flagged
        /\ (proc[p].pc = "loadAsync" /\ proc'[p].file # Null /\ (over \/ flagged)) =>
              /\ proc'[p].pc = "done"
              /\ ~proc'[p].decodeStarted

\* C1: in a preview and in an extraction the decode (file.async) is never
\* started for an entry whose declared uncompressedSize exceeds the
\* configured maxFileSize or whose sizes the ratio check flags; the checks
\* come after the lookup and before the decode, and a failing check ends
\* the request without a decode.
C1_GateBeforeDecode ==
    []C1_DecodeOnlyStarted /\ [][\A p \in Procs : C1_GateStep(p)]_vars

C1_Witness ==
    \E p \in Procs :
        /\ proc[p].kind = "preview"
        /\ proc[p].pc = "decode"
        /\ proc[p].file = <<"y">>
        /\ settings = NoSettings

\* a request for a path the sanitizer rejects has read, looked up and
\* decoded nothing; a request that decodes looked up the sanitized path
C2_NothingTouched(p) ==
    /\ sanitizeZipPath(RequestedPath(p)) = Null =>
          /\ proc[p].pc = "done"
          /\ ~proc[p].readStarted
          /\ proc[p].lookedUp = Null
          /\ ~proc[p].decodeStarted
    /\ proc[p].decodeStarted =>
          /\ proc[p].lookedUp = sanitizeZipPath(RequestedPath(p))
          /\ proc[p].file = proc[p].lookedUp

\* C2 as stated: every request whose raw internal path the sanitizer rejects
\* ends with InvalidPath, having read, looked up and decoded nothing, and a
\* request that decodes looked up the sanitized form of the requested path.
C2_Original ==
    \A p \in Procs :
        proc[p].pc # "idle" =>
            /\ C2_NothingTouched(p)
            /\ sanitizeZipPath(RequestedPath(p)) = Null => proc[p].outcome = "InvalidPath"

\* C2 as amended: such a request ends with InvalidPath, except a preview
\* whose identity names no archive path (MissingZipPath) or one that does
\* not percent-decode (the URIError is thrown): those are settled before
\* the path is sanitized.
C2_InvalidPathEndsRequest ==
    \A p \in Procs :
        proc[p].pc # "idle" =>
            /\ C2_NothingTouched(p)
            /\ sanitizeZipPath(RequestedPath(p)) = Null =>
                  proc[p].outcome =
                      IF proc[p].kind = "preview" /\ proc[p].zipArg = "%" THEN "Thrown"
                      ELSE IF proc[p].kind = "preview" /\ proc[p].zipArg = ""
                      THEN "MissingZipPath"
                      ELSE "InvalidPath"

C2_Witness ==
    \E p, q \in Procs :
        /\ proc[p].kind = "extract"
        /\ proc[p].path = <<".", ".", "/", "f">>
        /\ proc[p].outcome = "InvalidPath"
        /\ proc[q].kind = "extract"
        /\ proc[q].path = <<".", "\\", "f">>
        /\ proc[q].decodeStarted
        /\ proc[q].lookedUp = <<"f">>

\* a request the gate rejected returns no content
C7_NoContent ==
    \A p \in Procs :
        proc[p].outcome \in {"TooLarge", "SuspiciousRatio"} =>
            (proc[p].text = <<>> /\ ~proc[p].decodeStarted /\ proc[p].pc = "done")

\* the step that looks an entry up reports a size above the limit as
\* TooLarge whatever the ratio, and a flagged ratio within the size limit as
\* SuspiciousRatio
C7_GateStep(p) ==
    LET cfg     == getConfig(settings)
        entry   == ArchiveOf(proc'[p].zip)[proc'[p].file]
        over    == entry.uncompressedSize > cfg.maxFileSize
        flagged == RatioFlagged(entry.compressedSize, entry.uncompressedSize,
                                cfg.maxCompressionRatio)
    IN  (proc[p].pc = "loadAsync" /\ proc'[p].file # Null) =>
            /\ over => proc'[p].outcome = "TooLarge"
            /\ (~over /\ flagged) => proc'[p].outcome = "SuspiciousRatio"
            /\ (~over /\ ~flagged) => proc'[p].outcome = "none"

\* C7: the gate's rejections are two distinct outcomes, in the preview and
\* in the extraction: an entry whose declared uncompressedSize exceeds
\* maxFileSize yields TooLarge, also when its ratio exceeds the limit, and
\* never content; an entry within the size limit whose ratio check fails
\* yields SuspiciousRatio.
C7_DistinctRejections ==
    []C7_NoContent /\ [][\A p \in Procs : C7_GateStep(p)]_vars

C7_Witness ==
    \E p, q \in Procs :
        /\ proc[p].kind = "extract"
        /\ proc[p].file = <<"y">>
        /\ proc[p].outcome = "TooLarge"
        /\ proc[q].kind = "preview"
        /\ proc[q].file = <<"y">>
        /\ proc[q].outcome = "SuspiciousRatio"
        /\ settings.maxFileSize = <<1>>
        /\ settings.maxCompressionRatio = <<2>>

(***************************************************************************)
(* Properties of the explorer provider's archive cache (SpecExplorer).     *)
(***************************************************************************)
\* the step of a notification handler for the path a
HandlerStep(a) == pending[a] # "none" /\ pending'[a] = "none"

\* the step in which the call of l starts as a getChildren for an archive
GetStep(l) == loads[l].pc = "idle" /\ loads'[l].pc # "idle" /\ loads'[l].element # "root"

\* the handler leaves the path absent from zipContentsCache
C11_AbsentAfterInvalidate ==
    \A a \in ArchivePaths : HandlerStep(a) => a \notin DOMAIN zipContentsCache'

\* the first getChildren for a path after its invalidation reads the file
\* again, or at least answers with the index of the file's present content
C11_NextGetIsFresh(l) ==
    (GetStep(l) /\ loads'[l].path \in invalidated) =>
        \/ loads'[l].pc = "readFile"
        \/ loads'[l].index = fs[loads'[l].path]

\* C11: after invalidateCache(path) the path is absent from
\* zipContentsCache, and the next loadZip(path) loads the file afresh, so
\* that the index it returns reflects the content the file has by then.
C11_InvalidateThenFreshLoad ==
    [][C11_AbsentAfterInvalidate /\ \A l \in Loaders : C11_NextGetIsFresh(l)]_vars

\* C12: under every interleaving of listings, suspended loads and
\* notifications, a getChildren that starts when every notification for its
\* path has been handled is never answered from zipContentsCache with an
\* index parsed from content the file no longer has.
C12_NoStaleParseServed ==
    [][\A l \in Loaders :
          (GetStep(l) /\ loads'[l].hit /\ pending[loads'[l].path] = "none")
              => loads'[l].index = fs[loads'[l].path]]_vars

\* the step in which the loadZip of the call of l fails
FailStep(l) == loads[l].pc \in {"readFile", "loadAsync"} /\ loads'[l].outcome = "Empty"

\* a failing load writes nothing to zipContentsCache, and its getChildren
\* returns the empty list
C18_FailureStoresNothing(l) ==
    FailStep(l) =>
        /\ zipContentsCache' = zipContentsCache
        /\ loads'[l].pc = "done"
        /\ loads'[l].children = <<>>

\* a getChildren that finds no entry for its path reads the file
C18_MissLoadsAgain(l) ==
    (GetStep(l) /\ loads'[l].path \notin DOMAIN zipContentsCache) =>
        loads'[l].pc = "readFile"

\* C18: a failed load (file unreadable or not an archive) adds no entry to
\* zipContentsCache and changes none; its getChildren returns the empty
\* list instead of failing; a later loadZip that finds the path absent
\* attempts the load again.
C18_FailedLoadStoresNothing ==
    [][\A l \in Loaders : C18_FailureStoresNothing(l) /\ C18_MissLoadsAgain(l)]_vars

\* C18 as stated: when a load has failed, zipContentsCache holds no entry
\* for its path.
C18_Original ==
    [][\A l \in Loaders :
          FailStep(l) => loads[l].path \notin DOMAIN zipContentsCache']_vars

C18_Witness ==
    \E l, k \in Loaders :
        /\ loads[l].outcome = "Empty"
        /\ loads[l].path = "z"
        /\ "z" \notin DOMAIN zipContentsCache
        /\ "w" \in DOMAIN zipContentsCache
        /\ loads[k].pc = "readFile"
        /\ loads[k].path = "z"

(***************************************************************************)
(* Properties of the content cache (SpecLru).                              *)
(***************************************************************************)
KeyOf(n) == CacheKey([path |-> <<"/", n>>, zipArg |-> "z"])

MaxNow == getConfig(settings).maxCacheSize

\* the cached key whose most recent put or successful get is the oldest
LruVictim ==
    CHOOSE k \in DOMAIN contentCache :
        \A j \in DOMAIN contentCache : IndexOf(recency, k) <= IndexOf(recency, j)

\* the step is a put of a key that was not cached
PutNewStep(key) ==
    lastOp' = "put" /\ key \notin DOMAIN contentCache /\ key \in DOMAIN contentCache'

\* a put of a new key into a cache at capacity removes the least recently
\* used key and no other
C13_EvictsOnlyLru ==
    \A uri \in LruUris :
        (PutNewStep(CacheKey(uri)) /\ Cardinality(DOMAIN contentCache) = MaxNow) =>
            DOMAIN contentCache' =
                (DOMAIN contentCache \ {LruVictim}) \cup {CacheKey(uri)}

\* capacity 2: with A and B cached, A used before B, putting C leaves B and
\* C; with B and C cached and B just found, putting D leaves B and D
C13_Example ==
    /\ ( /\ MaxNow = 2
         /\ DOMAIN contentCache = {KeyOf("A"), KeyOf("B")}
         /\ IndexOf(recency, KeyOf("A")) < IndexOf(recency, KeyOf("B"))
         /\ PutNewStep(KeyOf("C")) )
       => DOMAIN contentCache' = {KeyOf("B"), KeyOf("C")}
    /\ ( /\ MaxNow = 2
         /\ DOMAIN contentCache = {KeyOf("B"), KeyOf("C")}
         /\ lastOp = "get"
         /\ recency[Len(recency)] = KeyOf("B")
         /\ PutNewStep(KeyOf("D")) )
       => DOMAIN contentCache' = {KeyOf("B"), KeyOf("D")}

\* C13: the content cache evicts in least-recently-used order, put and
\* successful get both counting as use: a put of a new key that finds the
\* cache at capacity removes the key whose last put or get is the oldest and
\* no other.  With capacity 2, putting A, B, C evicts A; getting B and
\* putting D then evicts C and keeps B.
C13_LruEviction == [][C13_EvictsOnlyLru /\ C13_Example]_vars

C13_Witness ==
    /\ MaxNow = 2
    /\ lastOp = "put"
    /\ recency = <<KeyOf("A"), KeyOf("C"), KeyOf("B"), KeyOf("D")>>
    /\ cacheOrder = <<KeyOf("B"), KeyOf("D")>>
    /\ DOMAIN contentCache = {KeyOf("B"), KeyOf("D")}

\* C14: after every put the content cache holds at most as many entries as
\* the maximum cache size configured at that put, whatever puts, gets,
\* invalidations and changes of the maximum came before.
C14_Bounded ==
    lastOp = "put" =>
        /\ Cardinality(DOMAIN contentCache) <= MaxNow
        /\ Len(cacheOrder) <= MaxNow

C14_Witness ==
    /\ lastOp = "put"
    /\ MaxNow = 1
    /\ Cardinality(DOMAIN contentCache) = 1
    /\ Len(recency) = 4

(***************************************************************************)
(* Properties of the two providers together (SpecExtension).               *)
(***************************************************************************)
\* two identities name the same file: the same archive path and raw
\* internal paths with the same sanitized form
SameFile(k1, k2) ==
    /\ k1.zipArg = k2.zipArg
    /\ sanitizeZipPath(RawInternalPath(k1.path)) = sanitizeZipPath(RawInternalPath(k2.path))

\* C15: two previews of the same file of the same archive use one slot of
\* the content cache: the cache never holds two entries whose identities
\* name the same archive path and internal paths that sanitize alike.
C15_OneSlotPerFile ==
    \A k1, k2 \in DOMAIN contentCache : SameFile(k1, k2) => k1 = k2

\* the text of the entry a preview of the identity uri names, as the file
\* at the archive path holds it now
CurrentText(path, zipArg) ==
    ArchiveOf(fs[zipArg])[sanitizeZipPath(RawInternalPath(path))].content

\* C16: once the notification for a change of the archive has been handled,
\* a preview that starts is not answered from the content cache with text
\* decoded before the change.
C16_NoStaleTextServed ==
    [][\A p \in Procs :
          ( /\ proc[p].pc = "idle"
            /\ proc'[p].outcome = "CacheHit"
            /\ pending[proc'[p].zipArg] = "none"
            /\ fs[proc'[p].zipArg] \in {"archive", "archive2"} )
          => proc'[p].text = CurrentText(proc'[p].path, proc'[p].zipArg)]_vars

\* C20: after the teardown both caches are empty and stay empty, also when
\* a load or a preview in flight completes afterwards.
C20_TeardownReleasesAll ==
    disposed =>
        /\ zipContentsCache = <<>>
        /\ contentCache = <<>>
        /\ cacheOrder = <<>>

(***************************************************************************)
(* Outcomes of provideTextDocumentContent (Spec).                          *)
(***************************************************************************)
\* the outcomes in which provideTextDocumentContent returns a string
ReturnedOutcomes ==
    {"Content", "CacheHit", "MissingZipPath", "InvalidPath", "NotFound",
     "TooLarge", "SuspiciousRatio", "ErrorReading"}

\* C17: resolving a virtual document identity never raises an exception: for
\* every identity, also one whose archive path is missing or does not decode,
\* and every outcome of the file read, the archive decode and the entry
\* decode, a finished preview request has returned the decoded text or one
\* of the user-facing error strings.
C17_NeverThrows ==
    \A p \in Procs :
        (proc[p].kind = "preview" /\ proc[p].pc \in {"done", "returned"}) =>
            proc[p].outcome \in ReturnedOutcomes

\* the size limit in bytes and the ratio limit that the settings give
LimitsOf(s) ==
    [maxFileSize |-> IF s.maxFileSize = <<>> THEN 10 * 1024 * 1024
                     ELSE s.maxFileSize[1] * 1024 * 1024,
     maxCompressionRatio |-> IF s.maxCompressionRatio = <<>> THEN 100
                             ELSE s.maxCompressionRatio[1]]

\* what the safety gate gives for an entry under the limits lim
GateVerdict(entry, lim) ==
    IF entry.uncompressedSize > lim.maxFileSize THEN "TooLarge"
    ELSE IF RatioFlagged(entry.compressedSize, entry.uncompressedSize,
                         lim.maxCompressionRatio) THEN "SuspiciousRatio"
    ELSE "Permitted"

\* the step of request p in which JSZip.loadAsync settles and the entry is
\* found: the request is rejected exactly when the gate rejects the entry
\* under the settings of that step
C19_GateReadsSettings(p) ==
    (proc[p].kind = "preview" /\ proc[p].pc = "loadAsync" /\ proc'[p].file # Null) =>
        LET verdict == GateVerdict(ArchiveOf(proc'[p].zip)[proc'[p].file],
                                   LimitsOf(settings))
        IN  IF verdict = "Permitted"
            THEN proc'[p].pc = "decode" /\ proc'[p].outcome = "none"
            ELSE proc'[p].pc = "done" /\ proc'[p].outcome = verdict

\* a request answered from contentCache returns the cached text and reaches
\* no gate
C19_HitSkipsGate(p) ==
    (proc[p].pc = "idle" /\ proc'[p].outcome = "CacheHit") =>
        /\ proc'[p].text = contentCache[CacheKey([path |-> proc'[p].path,
                                                  zipArg |-> proc'[p].zipArg])]
        /\ proc'[p].file = Null

\* C19: a change of maxFileSize or maxCompressionRatio takes effect on the
\* next gate decision: every preview request that is not answered from
\* contentCache gets the outcome the safety gate gives under the limits
\* configured when JSZip.loadAsync settles for it, and a request answered
\* from contentCache returns the cached text without a gate decision.
C19_ConfigTakesEffect ==
    [][\A p \in Procs : C19_GateReadsSettings(p) /\ C19_HitSkipsGate(p)]_vars

\* a request that is answered in the step that starts it, for an existing
\* file entry of archive z that the gate rejects under the settings of that
\* step, is answered with the gate's rejection
C19_AnsweredAtStart(p) ==
    LET internalPath == sanitizeZipPath(RawInternalPath(proc'[p].path))
        file == IF internalPath = Null THEN Null
                ELSE FindFile(ArchiveOf(fs["z"]), internalPath)
    IN  (/\ proc[p].pc = "idle"
         /\ proc'[p].pc = "done"
         /\ proc'[p].kind = "preview"
         /\ proc'[p].zipArg = "z"
         /\ fs["z"] = "archive"
         /\ file # Null) =>
            LET verdict == GateVerdict(ArchiveOf(fs["z"])[file], LimitsOf(settings))
            IN  verdict # "Permitted" => proc'[p].outcome = verdict

\* the statement with every request under the gate, cached text or not
C19_Original ==
    [][\A p \in Procs : C19_AnsweredAtStart(p)]_vars

\* after y was previewed with the default limits, the size limit was lowered
\* to 1 MB and a request not answered from the cache was rejected as TooLarge
C19_Witness ==
    \E p, q \in Procs :
        /\ proc[p].kind = "preview"
        /\ proc[p].file = <<"y">>
        /\ proc[p].outcome = "Content"
        /\ proc[q].kind = "preview"
        /\ proc[q].file = <<"y">>
        /\ proc[q].outcome = "TooLarge"
        /\ settings.maxFileSize = <<1>>

(***************************************************************************)
(* SpecWalk: the tree view expands an archive from its item downwards:     *)
(* getChildren for the archive item lists the base '', and every folder    *)
(* item returned is expanded in turn by a getChildren with its             *)
(* relativePath, in any order, on every archive index of up to MaxEntries  *)
(* entries drawn from WalkPaths.                                           *)
(***************************************************************************)
\* the entry paths of SpecTree, and a file two levels below an empty
\* segment
WalkPaths ==
    EntryPaths \cup { <<"a", "/", "/", "c", "/", "g">> }

WalkIndexes ==
    { [i \in 1..Len(ps) |-> [path |-> ps[i], dir |-> EndsWithSlash(ps[i])]] :
        ps \in { q \in UNION {[1..n -> WalkPaths] : n \in 0..MaxEntries} :
                    \A i, j \in 1..Len(q) : i # j => q[i] # q[j] } }

WalkInit ==
    /\ zipEntries \in WalkIndexes
    /\ basePath = <<>>
    /\ listing = <<>>
    /\ treePc = "walk"
    /\ frontier = {<<>>}
    /\ walked = {}
    /\ SanIdle
    /\ GateIdle
    /\ MainIdle
    /\ ExplIdle
    /\ LruIdle

\* getChildren(element) for the archive item (base '') or a folder item
\* (base element.relativePath) on the loaded archive
ExpandFolder(base) ==
    /\ treePc = "walk"
    /\ base \in frontier
    /\ LET items   == getEntriesAtPath(zipEntries, base)
           folders == {items[i].relativePath :
                         i \in {j \in 1..Len(items) : items[j].type = "folder"}}
       IN  /\ basePath' = base
           /\ listing' = items
           /\ walked' = walked \cup {[base |-> base, items |-> items]}
           /\ frontier' = (frontier \ {base}) \cup
                             (folders \ {w.base : w \in walked})
    /\ UNCHANGED <<zipEntries, treePc, sanVars, gateVars, mainVars, explVars, lruVars>>

WalkNext == \E base \in frontier : ExpandFolder(base)

SpecWalk == WalkInit /\ [][WalkNext]_vars

(***************************************************************************)
(* SpecScan: the explorer provider's scans on a workspace with the         *)
(* archives z and w, which are deleted and created again: up to two scans  *)
(* in flight at a time, started by the constructor, by created and deleted *)
(* notifications and by workspace-folder changes, their searches and       *)
(* completions in any order, and the root listing.                         *)
(***************************************************************************)
ScanFiles == {"missing", "archive"}

ScanInit ==
    /\ ExplorerConstructed
    /\ settings = NoSettings
    /\ fs = [a \in ArchivePaths |-> "archive"]
    /\ contentCache = <<>>
    /\ cacheOrder = <<>>
    /\ proc = [p \in Procs |-> IdleProc]
    /\ SanIdle
    /\ GateIdle
    /\ TreeIdle
    /\ LruIdle

ScanNext ==
    \/ \E a \in ArchivePaths, f \in ScanFiles : TouchFile(a, f)
    \/ \E a \in ArchivePaths, s \in ScanSlots : OnDidCreate(a, s)
    \/ \E a \in ArchivePaths, s \in ScanSlots : OnDidDelete(a, s)
    \/ \E s \in ScanSlots : OnDidChangeWorkspaceFolders(s)
    \/ \E s \in ScanSlots : ScanFindFiles(s)
    \/ \E s \in ScanSlots : ScanDone(s)
    \/ GetChildren("l1", RootElement)
    \/ GetChildrenReturn("l1")

SpecScan == ScanInit /\ [][ScanNext]_vars

(***************************************************************************)
(* SpecContent: the content provider alone on the archive z: two previews  *)
(* at a time, of the same and of different identities, invalidate, changes *)
(* of zipView.maxCacheSize between the default and small maxima, and the   *)
(* teardown with previews in flight.                                       *)
(***************************************************************************)
ContentUris ==
    ExtensionUris \cup {[path |-> <<"/", "y">>, zipArg |-> "z"]}

\* the values zipView.maxCacheSize takes: unset, 1 and 2
ContentSizes == {<<>>, <<1>>, <<2>>}

\* the user changes zipView.maxCacheSize
ChangeCacheLimit ==
    /\ \E n \in ContentSizes \ {settings.maxCacheSize} :
          settings' = [settings EXCEPT !.maxCacheSize = n]
    /\ UNCHANGED <<fs, contentCache, cacheOrder, proc,
                   sanVars, gateVars, treeVars, explVars, lruVars>>

ContentInit ==
    /\ settings = NoSettings
    /\ fs = [a \in ArchivePaths |-> IF a = "z" THEN "archive" ELSE "missing"]
    /\ contentCache = <<>>
    /\ cacheOrder = <<>>
    /\ proc = [p \in Procs |-> IdleProc]
    /\ SanIdle
    /\ GateIdle
    /\ TreeIdle
    /\ ExplIdle
    /\ LruIdle

ContentNext ==
    \/ \E p \in Procs, uri \in ContentUris : OpenDocument(p, uri)
    \/ \E p \in Procs : PreviewReadFileDone(p)
    \/ \E p \in Procs : PreviewLoadDone(p)
    \/ \E p \in Procs : PreviewDecodeDone(p)
    \/ \E p \in Procs : Return(p)
    \/ \E uri \in ContentUris : Invalidate(uri)
    \/ ChangeCacheLimit
    \/ Dispose

SpecContent == ContentInit /\ [][ContentNext]_vars

(***************************************************************************)
(* loadZip and zipContentsCache (SpecExplorer).                            *)
(***************************************************************************)
\* a getChildren for a path zipContentsCache holds is answered at once with
\* the cached index: nothing is read and the cache is left alone
C21_HitReuses(l) ==
    (GetStep(l) /\ loads'[l].path \in DOMAIN zipContentsCache) =>
        /\ loads'[l].pc = "done"
        /\ loads'[l].hit
        /\ loads'[l].index = zipContentsCache[loads'[l].path]
        /\ loads'[l].data = "none"
        /\ zipContentsCache' = zipContentsCache

\* the step in which the loadZip of the call of l succeeds
StoreStep(l) == loads[l].pc = "loadAsync" /\ loads'[l].outcome = "Listed"

\* a successful load stores what it parsed under its own path and leaves
\* the entries of all other paths as they were
C21_MissStores(l) ==
    StoreStep(l) =>
        /\ loads[l].path \in DOMAIN zipContentsCache'
        /\ zipContentsCache'[loads[l].path] = loads[l].data
        /\ loads'[l].index = loads[l].data
        /\ \A a \in ArchivePaths \ {loads[l].path} :
              /\ a \in DOMAIN zipContentsCache' <=> a \in DOMAIN zipContentsCache
              /\ a \in DOMAIN zipContentsCache =>
                    zipContentsCache'[a] = zipContentsCache[a]

\* a call reads the file at most once and parses it at most once: it never
\* goes back to an earlier await
C21_ReadsOnce(l) ==
    /\ loads[l].pc = "readFile" => loads'[l].pc \in {"readFile", "loadAsync", "done"}
    /\ loads[l].pc = "loadAsync" => loads'[l].pc \in {"loadAsync", "done"}
    /\ (loads[l].pc = "readFile" /\ loads'[l].pc = "loadAsync") =>
          loads'[l].data = fs[loads[l].path]

\* C21: loadZip loads on a miss and reuses on a hit: a call for a path
\* present in zipContentsCache returns the cached index without reading the
\* file; a successful call for an absent path reads and parses the file
\* once and stores the result under exactly that path, and the entries of
\* all other paths stay unchanged.
C21_LoadOnMissReuseOnHit ==
    [][\A l \in Loaders :
          C21_HitReuses(l) /\ C21_MissStores(l) /\ C21_ReadsOnce(l)]_vars

\* z was loaded on a miss while w was cached, and the next call for z was
\* answered from the cache
C21_Witness ==
    /\ loads["l1"].path = "z"
    /\ loads["l1"].outcome = "Listed"
    /\ ~loads["l1"].hit
    /\ loads["l2"].path = "z"
    /\ loads["l2"].outcome = "Listed"
    /\ loads["l2"].hit
    /\ "w" \in DOMAIN zipContentsCache

\* the entry zipContentsCache holds for a path, or "absent"
CachedIndex(cache, a) == IF a \in DOMAIN cache THEN cache[a] ELSE "absent"

\* zipContentsCache holds, for each archive path, no entry or the one index
\* a successful parse produced
C22_WellFormed ==
    /\ DOMAIN zipContentsCache \subseteq ArchivePaths
    /\ \A a \in DOMAIN zipContentsCache : zipContentsCache[a] \in {"archive", "archive2"}

\* a load that completes overwrites whatever an earlier load stored for its
\* path: after it, the cached index is the one it produced
C22_LastStoreWins(l) ==
    StoreStep(l) =>
        CachedIndex(zipContentsCache', loads[l].path) = loads'[l].index

\* between the completions of loads only an invalidation changes the entry
\* of a path
C22_EntryFrame(a) ==
    CachedIndex(zipContentsCache', a) # CachedIndex(zipContentsCache, a) =>
        \/ HandlerStep(a)
        \/ \E l \in Loaders : StoreStep(l) /\ loads[l].path = a

\* C22: two getChildren calls for the same uncached path may both load it
\* (no single flight), and zipContentsCache stays well formed under every
\* interleaving: it holds at most one index per path, every load that
\* completes replaces the index stored for its path by its own, and nothing
\* but a later completion or an invalidation changes it, so that once both
\* loads have completed with no invalidation in between the cached index is
\* that of the load that completed last.
C22_LastWriteWins ==
    /\ []C22_WellFormed
    /\ [][/\ \A l \in Loaders : C22_LastStoreWins(l)
          /\ \A a \in ArchivePaths : C22_EntryFrame(a)]_vars

\* both calls loaded z, from different contents of the file, and the index
\* of the older content is the one cached
C22_Witness ==
    /\ loads["l1"].path = "z"
    /\ loads["l1"].outcome = "Listed"
    /\ ~loads["l1"].hit
    /\ loads["l1"].index = "archive"
    /\ loads["l2"].path = "z"
    /\ loads["l2"].outcome = "Listed"
    /\ ~loads["l2"].hit
    /\ loads["l2"].index = "archive2"
    /\ "z" \notin invalidated
    /\ CachedIndex(zipContentsCache, "z") = "archive"

(***************************************************************************)
(* The watcher handlers (SpecExplorer).                                    *)
(***************************************************************************)
\* a scan is started in this step: its findFiles has not run yet
ScanStarted == \E s \in ScanSlots : scans[s].pc = "idle" /\ scans'[s].pc = "finding"

\* onDidCreate and onDidDelete: when the handler has run the path is absent
\* from zipContentsCache and the re-scan is in flight, with its search
\* still ahead; the handler itself fires no refresh
C23_CreateDeleteRescans(a) ==
    (HandlerStep(a) /\ pending[a] \in {"created", "deleted"}) =>
        /\ a \notin DOMAIN zipContentsCache'
        /\ ScanStarted
        /\ treeDataChanged' = treeDataChanged

\* onDidChange: when the handler has run the path is absent from
\* zipContentsCache and the refresh has fired; no scan is started
C23_ChangeRefreshes(a) ==
    (HandlerStep(a) /\ pending[a] = "changed") =>
        /\ a \notin DOMAIN zipContentsCache'
        /\ treeDataChanged'
        /\ scans' = scans

\* C23: every created, deleted and changed notification for an archive path
\* removes the path from zipContentsCache inside its handler, so that the
\* re-scan the handler starts (created, deleted) and the refresh it fires
\* (changed) find the path absent; created and deleted always start a
\* re-scan, changed never does.
C23_HandlersInvalidateFirst ==
    [][\A a \in ArchivePaths :
          C23_CreateDeleteRescans(a) /\ C23_ChangeRefreshes(a)]_vars

\* z was answered from the cache, then deleted: its handler has removed it
\* and the re-scan is in flight, while w is still cached
C23_Witness ==
    /\ loads["l1"].path = "z"
    /\ loads["l1"].hit
    /\ fs["z"] = "missing"
    /\ pending["z"] = "none"
    /\ "z" \in invalidated
    /\ "z" \notin DOMAIN zipContentsCache
    /\ "w" \in DOMAIN zipContentsCache
    /\ scans["s1"].pc = "finding"

(***************************************************************************)
(* Who writes contentCache (Spec).                                         *)
(***************************************************************************)
\* the step in which the preview of p ends with text: decoded, or found in
\* the cache
TextStep(p) ==
    /\ proc[p].pc # "done"
    /\ proc'[p].pc = "done"
    /\ proc'[p].kind = "preview"
    /\ proc'[p].outcome \in {"Content", "CacheHit"}

\* the cache contents change only in the step that ends a preview with
\* freshly decoded text, and then by that text under the request's key; the
\* access order changes only in a step that ends a preview with text
C24_OnlyTextWrites ==
    /\ contentCache' # contentCache =>
          \E p \in Procs :
              /\ TextStep(p)
              /\ proc'[p].outcome = "Content"
              /\ contentCache' =
                    MapSet(contentCache,
                           CacheKey([path |-> proc'[p].path, zipArg |-> proc'[p].zipArg]),
                           proc'[p].text)
    /\ cacheOrder' # cacheOrder => \E p \in Procs : TextStep(p)

\* every cached value is the content of the entry its key names, and a
\* request answered from the cache returns such a content
C24_NoErrorCached ==
    /\ \A k \in DOMAIN contentCache :
          \E name \in EntryNames :
              /\ sanitizeZipPath(RawInternalPath(k.path)) = name
              /\ contentCache[k] = Archive[name].content
    /\ \A p \in Procs :
          proc[p].outcome = "CacheHit" =>
              \E name \in EntryNames : proc[p].text = Archive[name].content

\* C24: contentCache is written only by a successful text preview: a
\* preview that ends in an error (missing zip path, invalid path, load
\* failure, not found, too large, suspicious ratio, decode failure) and
\* every binary extraction leave the cache contents and the access order
\* unchanged in each of their steps, so no error string is ever cached or
\* served from the cache.
C24_CacheWrittenBySuccessOnly ==
    []C24_NoErrorCached /\ [][C24_OnlyTextWrites]_vars

\* with text cached, a preview has ended in a decode failure and an
\* extraction has returned bytes
C24_Witness ==
    \E p, q \in Procs :
        /\ proc[p].kind = "preview"
        /\ proc[p].file = <<"k">>
        /\ proc[p].outcome = "ErrorReading"
        /\ proc[q].kind = "extract"
        /\ proc[q].outcome = "Bytes"
        /\ DOMAIN contentCache # {}

(***************************************************************************)
(* The two providers and the parsed archive (SpecExtension).               *)
(***************************************************************************)
\* C25: a preview or an extraction for an archive path that
\* zipContentsCache holds reuses the cached index: it does not go on to
\* read and parse the archive file again, so that the tree listing and the
\* extraction of one archive are answered from the same parse.
C25_ExtractionReusesIndex ==
    [][\A p \in Procs :
          (/\ proc[p].pc = "idle"
           /\ proc'[p].pc # "idle"
           /\ proc'[p].zipArg \in DOMAIN zipContentsCache)
              => ~proc'[p].readStarted]_vars

(***************************************************************************)
(* Termination of addToCache (SpecLru).                                    *)
(***************************************************************************)
\* C26: addToCache terminates for every configured maximum that is a
\* non-negative integer, 0 included, and for every cache state: no put is
\* ever left inside its eviction loop, and after a put the cache holds no
\* more entries than the configured maximum.
C26_PutTerminates ==
    /\ lastOp # "evicting"
    /\ lastOp = "put" => Len(cacheOrder) <= getConfig(settings).maxCacheSize

(***************************************************************************)
(* cacheOrder and contentCache (SpecContent).                              *)
(***************************************************************************)
\* the keys of the access order
OrderKeys == {cacheOrder[i] : i \in 1..Len(cacheOrder)}

\* C27: in every reachable state of the content provider, under every
\* interleaving of concurrent previews (two previews of one uncached key
\* included), cache hits, invalidate and dispose, cacheOrder holds no key
\* twice and its keys are exactly the keys of contentCache.
C27_OrderMatchesMap ==
    /\ \A i, j \in 1..Len(cacheOrder) : cacheOrder[i] = cacheOrder[j] => i = j
    /\ OrderKeys = DOMAIN contentCache

\* two previews of the same identity both missed and both decoded and
\* stored its text
C27_Witness ==
    /\ proc["p1"].outcome = "Content"
    /\ proc["p2"].outcome = "Content"
    /\ proc["p1"].path = proc["p2"].path
    /\ Len(cacheOrder) = 2
    /\ settings.maxCacheSize = <<2>>

(***************************************************************************)
(* Concurrent scans (SpecScan).                                            *)
(***************************************************************************)
\* C28: the root listing converges to the latest scan: when several scans
\* were started by successive notifications or workspace-folder changes and
\* their searches complete in any order, then once all of them have
\* completed zipFiles is the result of the scan started most recently, not
\* of an earlier one.
C28_ConvergesToLatestScan ==
    (\A s \in ScanSlots : scans[s].pc = "idle") => zipFiles = latestScan.found

(***************************************************************************)
(* The whole tree of an archive (SpecWalk).                                *)
(***************************************************************************)
\* the listings that hold a file item for the entry
ListingsOf(e) ==
    {w \in walked :
        \E i \in 1..Len(w.items) :
            w.items[i].type = "file" /\ w.items[i].relativePath = e.path}

\* the names of the directories above the entry, outermost first
ParentSegments(e) ==
    LET segs == SelectSeq(SegmentsOf(e.path), LAMBDA seg : seg # <<>>)
    IN  SubSeq(segs, 1, Len(segs) - 1)

\* C29: the virtual tree is complete and unambiguous: for every archive
\* index whose paths are separated by forward slashes and have no leading
\* slash, when every folder has been expanded each entry that is no
\* directory has been returned as a file item by exactly one listing, and
\* that listing is the one of the entry's parent directory.
C29_TreeComplete ==
    frontier = {} /\ treePc = "walk" =>
        \A e \in Range(zipEntries) :
            ~e.dir =>
                /\ Cardinality(ListingsOf(e)) = 1
                /\ \A w \in ListingsOf(e) :
                      SelectSeq(SegmentsOf(w.base), LAMBDA seg : seg # <<>>)
                          = ParentSegments(e)

=============================================================================
